---- MODULE Spec2Model ----
(***************************************************************************)
(* discord-vc-tracker: the networked cache backend (RedisCache), the       *)
(* storage adapter's read path (SQLiteStorage) and the cache coordinator   *)
(* (VoiceManager's cache-aware reads and write-then-invalidate protocol).  *)
(*                                                                         *)
(* Spec       RedisCache alone: concurrent cache operations of one         *)
(*            instance against one Redis server that can go down.          *)
(* SpecVal    RedisCache set and get over every kind of value and ttl,     *)
(*            with the clock.                                              *)
(* SpecCoord  the coordinator's reads and writes over a RedisCache and a   *)
(*            SQLiteStorage, with the clock.                               *)
(***************************************************************************)
EXTENDS Integers, Sequences, FiniteSets, TLC

(***************************************************************************)
(* Bounds of the model.                                                    *)
(***************************************************************************)
NProcs == 2
MaxOps == 3
MaxTicks == 3
MaxOffset == 1

Procs == 1..NProcs

(***************************************************************************)
(* JavaScript values handed to the cache, as <<type, JSON text>>.          *)
(* A "str" carries its characters; a "circ" is an object JSON.stringify    *)
(* throws on (a circular reference, a BigInt).                             *)
(***************************************************************************)
VObj == <<"obj", "{xp:10}">>
VNum == <<"num", "10">>
VStrNum == <<"str", "10">>
VStrEmpty == <<"str", "">>
VStrPlain == <<"str", "hi">>
VNull == <<"null", "null">>
VCirc == <<"circ", "">>

Values == {VObj, VNum, VStrNum, VStrEmpty, VStrPlain, VNull, VCirc}

\* What the storage adapter returns: a user's row (its xp stands for the
\* counters), a guild's leaderboard rows (one tracked user), a guild's config.
UserData(xp) == <<"obj", "{xp:" \o ToString(xp) \o "}">>
LeaderboardRows(xp) == <<"arr", "[{u1,xp:" \o ToString(xp) \o "}]">>
NoRows == <<"arr", "[]">>
GuildData(rev) == <<"obj", "{config:" \o ToString(rev) \o "}">>

StorageValues ==
  {UserData(n) : n \in 0..MaxOps} \cup {LeaderboardRows(n) : n \in 0..MaxOps}
    \cup {GuildData(n) : n \in 0..MaxOps} \cup {NoRows}

\* Every value JSON text can denote in this model (what JSON.parse can return).
JsonValues == (Values \ {VCirc}) \cup StorageValues

\* JSON.stringify(value): throws on a "circ", quotes a string.
JSONstringify(v) ==
  IF v[1] = "circ" THEN [ok |-> FALSE, text |-> ""]
  ELSE IF v[1] = "str" THEN [ok |-> TRUE, text |-> "'" \o v[2] \o "'"]
  ELSE [ok |-> TRUE, text |-> v[2]]

\* JSON.parse(text): the value whose JSON text it is, or a SyntaxError.
JSONparse(text) ==
  LET m == {v \in JsonValues : JSONstringify(v).text = text}
  IN IF m = {} THEN [ok |-> FALSE, v |-> VNull]
     ELSE [ok |-> TRUE, v |-> CHOOSE v \in m : TRUE]

\* set/mset: typeof value === 'string' ? value : JSON.stringify(value)
Serialize(v) ==
  IF v[1] = "str" THEN [ok |-> TRUE, text |-> v[2]] ELSE JSONstringify(v)

\* get/mget: try { JSON.parse(value) } catch { value }
Deserialize(text) ==
  IF JSONparse(text).ok THEN JSONparse(text).v ELSE <<"str", text>>

(***************************************************************************)
(* Configuration: the constructor's defaults.                              *)
(***************************************************************************)
KeyPrefixDefault == "dvt:"

\* new RedisCache(config): ttl || 300000, enableStats !== false, keyPrefix || 'dvt:'
RedisCacheConfig(c) ==
  [ttl |-> IF c.ttl = 0 THEN 300000 ELSE c.ttl,
   enableStats |-> c.enableStats,
   keyPrefix |-> IF c.keyPrefix = "" THEN KeyPrefixDefault ELSE c.keyPrefix]

StatsZero == [hits |-> 0, misses |-> 0, sets |-> 0, deletes |-> 0, size |-> 0,
              hitRate |-> <<0, 1>>]

\* Constructor inputs explored (ttl 0 stands for an omitted ttl).
ConfigInputs == [ttl : {0}, enableStats : {TRUE, FALSE}, keyPrefix : {""}]
ValConfigInputs == [ttl : {1500}, enableStats : {TRUE}, keyPrefix : {""}]

Keys == {"a", "b"}
TtlArgs == {500, 1000}

\* getKey(key): `${keyPrefix}${key}`
getKey(cfg, key) == cfg.keyPrefix \o key

\* ttl || this.config.ttl
TtlMs(cfg, ttl) == IF ttl = 0 THEN cfg.ttl ELSE ttl
\* The milliseconds handed on as seconds.
TtlSecondsUndivided(cfg, ttl) == TtlMs(cfg, ttl)

\* ttlSeconds = Math.floor((ttl || this.config.ttl) / 1000)
TtlSeconds(cfg, ttl) == TtlMs(cfg, ttl) \div 1000

(***************************************************************************)
(* The Redis server: full key -> entry.  exp is the absolute expiry time   *)
(* in ms; orig, setAt and ttlMs record the set call that wrote the entry   *)
(* (history, not read by the program).                                     *)
(***************************************************************************)
StoreKeys == {KeyPrefixDefault \o k : k \in Keys}

NoEntry == [present |-> FALSE, text |-> "", exp |-> 0, orig |-> VNull,
            setAt |-> 0, ttlMs |-> 0]

Live(st, fk, t) == st[fk].present /\ t < st[fk].exp

\* GET: the stored text, or nil when the key is absent or expired.
RedisGet(st, fk, t) ==
  IF Live(st, fk, t) THEN [nil |-> FALSE, text |-> st[fk].text]
  ELSE [nil |-> TRUE, text |-> ""]

\* SETEX key seconds text: Redis rejects seconds <= 0 (invalid expire time).
RedisSetExOk(secs) == secs > 0

RedisSetEx(st, fk, secs, text, t, orig, ttlMs) ==
  [st EXCEPT ![fk] = [present |-> TRUE, text |-> text, exp |-> t + secs * 1000,
                      orig |-> orig, setAt |-> t, ttlMs |-> ttlMs]]

\* A DEL that removes nothing.
RedisDelKeeps(st, fk) == st

\* DEL key
RedisDel(st, fk) == [st EXCEPT ![fk] = NoEntry]

\* An EXISTS that also counts expired entries.
RedisExistsStored(st, fk, t) == IF st[fk].present THEN 1 ELSE 0

\* EXISTS key
RedisExists(st, fk, t) == IF Live(st, fk, t) THEN 1 ELSE 0

\* SCAN MATCH prefix*: the live keys that start with the prefix.
StartsWith(str, prefix) ==
  Len(prefix) <= Len(str) /\ SubSeq(str, 1, Len(prefix)) = prefix

RedisScan(st, prefix, t) ==
  {fk \in DOMAIN st : Live(st, fk, t) /\ StartsWith(fk, prefix)}

(***************************************************************************)
(* State of one RedisCache instance, its Redis client and its callers.     *)
(***************************************************************************)
VARIABLES
  config,      \* this.config
  stats,       \* this.stats
  connected,   \* this.connected
  connecting,  \* this.connecting: "null" or "pending" (the in-flight init promise)
  attempts,    \* client.connect() calls whose promise has not settled
  client,      \* the node-redis client: closed, connecting, ready, reconnecting
  serverUp,    \* whether the Redis server is reachable
  store,       \* the Redis keyspace
  now,         \* the clock, in ms
  pc,          \* per caller: idle, await_conn, conn_err, call
  op,          \* per caller: the operation in flight
  last,        \* the operation that completed in the latest step, if one did
  nops,        \* operations started
  getsDone,    \* get calls completed
  db,          \* the storage adapter's tables
  cpc,         \* per coordinator caller: idle, lookup, fetch, fill, write, inval
  cop,         \* per coordinator caller: the read or write in flight
  clast,       \* what the coordinator did in the latest step, if it acted
  committed,   \* the newest xp and config revision whose write has completed
  epoch,       \* per cache key: `committed` when its entry was cached
  peer,        \* this.config of a second RedisCache instance on the same store
  shared,      \* what one of the two instances did in the latest step, if it acted
  mconfig,     \* the in-process cache's configuration
  mcache,      \* the in-process cache's entries, least recently used first
  mstats,      \* the in-process cache's statistics
  mclock,      \* accesses made to the in-process cache
  mlast,       \* what the in-process cache did in the latest step, if it acted
  flushed,     \* keys dropped by clear() and not set since
  keyed,       \* two logical objects and the cache keys built for them
  sdb,         \* the SQLite database: one guild's row and its users' rows
  scorrupt,    \* the live database file is corrupt
  sfiles,      \* the files at the backup paths
  slast,       \* what the storage adapter did in the latest step, if it acted
  ctorArg,     \* the config passed to new RedisCache(config)
  ctor,        \* the constructor: "none" (not called), "ok" or "threw"
  retries,     \* reconnect attempts made since the socket was last connected
  delay,       \* the delay the reconnect strategy returned last, in ms
  sopen,       \* this.db of the SQLiteStorage is an open handle
  board        \* a users table, a getLeaderboard call on it and its result

redisVars == <<config, stats, connected, connecting, attempts, client, serverUp,
               store, now, pc, op, last, nops, getsDone>>

coordVars == <<db, cpc, cop, clast, committed, epoch>>
peerVars == <<peer, shared>>

IdleOp == [name |-> "none", keys |-> <<>>, vals |-> <<>>, ttl |-> 0]

\* What a call on one of two instances sharing a store leaves in `shared`.
NoShared == [inst |-> 0, name |-> "none", keys |-> << >>, ret |-> << >>,
             retBool |-> FALSE, size |-> 0]

InitPeerIdle == peer = [ttl |-> 0, enableStats |-> FALSE, keyPrefix |-> ""]
                /\ shared = NoShared

memVars == <<mconfig, mcache, mstats, mclock, mlast, flushed>>

\* What an operation of the in-process cache leaves in `mlast`.
\*   hit      get: the value was served
\*   ret      the values returned (get: one, mget: one per key)
\*   retBool  the boolean returned (has)
\*   evicted  the keys evicted to make room
NoMLast == [name |-> "none", keys |-> << >>, hit |-> FALSE, ret |-> << >>,
            retBool |-> FALSE, evicted |-> << >>]

\* No in-process cache in use.
InitMemIdle ==
  /\ mconfig = [ttl |-> 0, maxSize |-> 0, enableStats |-> FALSE]
  /\ mcache = << >>
  /\ mstats = [hits |-> 0, misses |-> 0, sets |-> 0, deletes |-> 0, size |-> 0,
               hitRate |-> <<0, 1>>]
  /\ mclock = 0
  /\ mlast = NoMLast
  /\ flushed = {}

keyVars == <<keyed>>

NoObject == [kind |-> "none", g |-> "", u |-> "", sortBy |-> ""]
NoKeyed == [a |-> NoObject, b |-> NoObject, ka |-> "", kb |-> "", built |-> FALSE]

InitKeyIdle == keyed = NoKeyed

sqlVars == <<sdb, scorrupt, sfiles, slast, sopen>>

StoreUsers == {"u1", "u2"}
BackupPaths == {"backup.db"}

\* No row under the primary key.
NoRow == -1

\* The tables of one guild: the guild row's config revision, each user
\* row's xp and the number of session rows of each user.
SDbEmpty == [rev |-> NoRow, users |-> [u \in StoreUsers |-> NoRow],
             sessions |-> [u \in StoreUsers |-> 0]]

\* No file at the path.
NoFile == [exists |-> FALSE, data |-> SDbEmpty, ok |-> FALSE]

\* What a call of the storage adapter leaves in `slast`.
\*   threw   the promise rejected
\*   ret     the boolean returned (safeBackup)
\*   failAt  saveGuild: the statement that failed, if one did
\*   user    saveUser, saveSession: the user of the row
NoSLast == [name |-> "none", path |-> "", threw |-> FALSE, ret |-> FALSE,
            failAt |-> "none", user |-> ""]

InitSqlIdle ==
  /\ sdb = SDbEmpty
  /\ scorrupt = FALSE
  /\ sfiles = [f \in BackupPaths |-> NoFile]
  /\ slast = NoSLast
  /\ sopen = TRUE

ctorVars == <<ctorArg, ctor>>

NoCtorArg == [url |-> "", ttl |-> 0, enableStats |-> TRUE, keyPrefix |-> ""]

\* An instance already constructed.
InitCtorIdle == ctorArg = NoCtorArg /\ ctor = "ok"

\* The variables of the components other than the RedisCache, the coordinator
\* and the second instance.
rcVars == <<retries, delay>>

\* The socket is connected.
InitRcIdle == retries = 0 /\ delay = 0

lbVars == <<board>>

\* No getLeaderboard call under study.
NoBoard == [tab |-> << >>, g |-> "", sortBy |-> "", limit |-> 0, offset |-> 0,
            res |-> << >>, done |-> FALSE]

InitLbIdle == board = NoBoard

extVars == <<memVars, keyVars, sqlVars, ctorVars, rcVars, lbVars>>
InitExtIdle ==
  /\ InitMemIdle /\ InitKeyIdle /\ InitSqlIdle /\ InitCtorIdle /\ InitRcIdle
  /\ InitLbIdle

\* What a completing operation leaves in `last`.
\*   at      the time of the completing step
\*   threw   the promise rejected (the error reached the caller)
\*   ret     the values returned (get: one, mget: one per key)
\*   retBool the boolean returned (has)
\*   retStats the stats snapshot returned (getStats)
\*   cmds    the store commands the operation issued
\*   okCall  the store call resolved
\*   found   per key read: the store's reply was not nil
\*   src     per key read: the store's entry when the command ran
BaseRes(o) ==
  [name |-> o.name, keys |-> o.keys, vals |-> o.vals, ttl |-> o.ttl,
   threw |-> FALSE, ret |-> <<>>, retBool |-> FALSE, retStats |-> StatsZero,
   cmds |-> <<>>, okCall |-> FALSE, found |-> <<>>, src |-> <<>>, at |-> now]

NoRes == [BaseRes(IdleOp) EXCEPT !.at = 0]

\* updateHitRate(): total > 0 ? hits / total : 0, as the fraction <<num, den>>.
updateHitRate(s) ==
  [s EXCEPT !.hitRate = IF s.hits + s.misses > 0
                        THEN <<s.hits, s.hits + s.misses>> ELSE <<0, 1>>]

KeySeqs == {<< >>, <<"a">>, <<"a", "b">>}
BatchValues == {VObj, VCirc}

\* The calls explored by Spec: every operation, on two keys.
OpInputs ==
       [name : {"get", "delete", "has"}, keys : {<<k>> : k \in Keys},
        vals : {<< >>}, ttl : {0}]
  \cup [name : {"set"}, keys : {<<k>> : k \in Keys},
        vals : {<<v>> : v \in BatchValues}, ttl : {0}]
  \cup [name : {"mget"}, keys : KeySeqs, vals : {<< >>}, ttl : {0}]
  \cup [name : {"mset"}, keys : {<<"a", "b">>},
        vals : {<<VObj, VObj>>, <<VObj, VCirc>>}, ttl : {0, 500}]
  \cup [name : {"mset"}, keys : {<< >>}, vals : {<< >>}, ttl : {0}]
  \cup [name : {"getStats", "clear", "close", "init"}, keys : {<< >>},
        vals : {<< >>}, ttl : {0}]

\* The calls explored by SpecVal: set, get and has of one key, over every value
\* (with the default ttl) and every ttl override.
ValInputs ==
       [name : {"get", "has"}, keys : {<<"a">>}, vals : {<< >>}, ttl : {0}]
  \cup [name : {"set"}, keys : {<<"a">>}, vals : {<<v>> : v \in Values}, ttl : {0}]
  \cup [name : {"set"}, keys : {<<"a">>}, vals : {<<VObj>>}, ttl : TtlArgs]

CacheOps == {"get", "set", "delete", "has", "mget", "mset", "clear", "getStats"}

(***************************************************************************)
(* RedisCache: the operations.  A call runs synchronously up to its first  *)
(* real suspension (the connection attempt or the store command); the      *)
(* store's execution of the command and the continuation that follows the  *)
(* reply are one step.                                                     *)
(***************************************************************************)
connVars == <<connected, connecting, attempts, client, serverUp>>

Finish(p, r) ==
  /\ pc' = [pc EXCEPT ![p] = "idle"]
  /\ op' = [op EXCEPT ![p] = IdleOp]
  /\ last' = r
  /\ getsDone' = IF r.name = "get" THEN getsDone + 1 ELSE getsDone

Begin(p, o, where) ==
  /\ pc' = [pc EXCEPT ![p] = where]
  /\ op' = [op EXCEPT ![p] = o]
  /\ last' = NoRes
  /\ UNCHANGED getsDone

\* An init that does not look at this.connecting.
initUnguarded(p, o) ==
  IF connected
  THEN Finish(p, [BaseRes(o) EXCEPT !.okCall = TRUE]) /\ UNCHANGED connVars
  ELSE /\ Begin(p, o, "await_conn")
       /\ connecting' = "pending"
       /\ attempts' = attempts + 1
       /\ client' = IF client = "closed" THEN "connecting" ELSE client
       /\ UNCHANGED <<connected, serverUp>>

\* init(): await the in-flight attempt, or return when connected, or start
\* client.connect() and remember its promise in this.connecting.
init(p, o) ==
  IF connecting = "pending"
  THEN Begin(p, o, "await_conn") /\ UNCHANGED connVars
  ELSE IF connected
  THEN Finish(p, [BaseRes(o) EXCEPT !.okCall = TRUE]) /\ UNCHANGED connVars
  ELSE /\ Begin(p, o, "await_conn")
       /\ connecting' = "pending"
       /\ attempts' = attempts + 1
       /\ client' = IF client = "closed" THEN "connecting" ELSE client
       /\ UNCHANGED <<connected, serverUp>>

\* ensureConnected(): if (!this.connected) await this.init()
ensureConnected(p, o) ==
  IF connected THEN Begin(p, o, "call") /\ UNCHANGED connVars ELSE init(p, o)

\* The bulk delete the source keeps in comments: SCAN the prefix, UNLINK the
\* keys found, count them as deletes.
clearBulkDelete(p, o) ==
  LET found == RedisScan(store, config.keyPrefix, now)
  IN /\ store' = [fk \in DOMAIN store |-> IF fk \in found THEN NoEntry ELSE store[fk]]
     /\ stats' = IF config.enableStats
                 THEN [stats EXCEPT !.size = 0, !.deletes = @ + Cardinality(found)]
                 ELSE stats
     /\ Finish(p, [BaseRes(o) EXCEPT !.cmds = <<"SCAN", "UNLINK">>])
     /\ UNCHANGED connVars

\* A clear that resets every statistic.
clearResetStats(p, o) ==
  /\ stats' = IF config.enableStats THEN StatsZero ELSE stats
  /\ Finish(p, BaseRes(o))
  /\ UNCHANGED <<store, connVars>>

\* clear(): logs, and resets stats.size only.
clear(p, o) ==
  /\ stats' = IF config.enableStats THEN [stats EXCEPT !.size = 0] ELSE stats
  /\ Finish(p, BaseRes(o))
  /\ UNCHANGED <<store, connVars>>

\* A caller invokes an operation.
Start(p, o) ==
  /\ pc[p] = "idle"
  /\ UNCHANGED <<coordVars, peerVars, extVars>>
  /\ \A q \in Procs : pc[q] = "idle" => p <= q    \* callers are interchangeable
  /\ nops < MaxOps
  /\ nops' = nops + 1
  /\ UNCHANGED <<config, now>>
  /\ CASE o.name = "clear" -> clear(p, o)
       [] o.name = "init" -> init(p, o) /\ UNCHANGED <<stats, store>>
       [] o.name = "close" ->
            /\ IF connected THEN Begin(p, o, "call")
               ELSE Finish(p, [BaseRes(o) EXCEPT !.okCall = TRUE])
            /\ UNCHANGED <<stats, store, connVars>>
       [] o.name = "getStats" /\ ~config.enableStats ->
            /\ Finish(p, [BaseRes(o) EXCEPT !.retStats = stats])
            /\ UNCHANGED <<stats, store, connVars>>
       [] OTHER -> ensureConnected(p, o) /\ UNCHANGED <<stats, store>>

\* client.connect() resolves (the socket has been ready): init() sets
\* connected, clears connecting, and every caller awaiting it goes on.
ConnectResolve ==
  /\ connecting = "pending"
  /\ UNCHANGED <<coordVars, peerVars, extVars>>
  /\ client # "connecting"
  /\ connected' = TRUE
  /\ connecting' = "null"
  /\ attempts' = attempts - 1
  /\ pc' = [p \in Procs |-> IF pc[p] = "await_conn" THEN "call" ELSE pc[p]]
  /\ UNCHANGED <<config, stats, client, serverUp, store, now, op, nops, getsDone>>
  /\ last' = NoRes

\* A rejected attempt whose promise stays in this.connecting.
ConnectRejectKeepsMarker ==
  /\ connecting = "pending"
  /\ UNCHANGED <<coordVars, peerVars, extVars>>
  /\ client = "connecting"
  /\ connected' = FALSE
  /\ attempts' = attempts - 1
  /\ client' = "closed"
  /\ pc' = [p \in Procs |-> IF pc[p] = "await_conn" THEN "conn_err" ELSE pc[p]]
  /\ UNCHANGED <<config, stats, connecting, serverUp, store, now, op, nops, getsDone>>
  /\ last' = NoRes

\* client.connect() rejects: init() clears connected and connecting and
\* rethrows to every caller awaiting it.
ConnectReject ==
  /\ connecting = "pending"
  /\ UNCHANGED <<coordVars, peerVars, extVars>>
  /\ client = "connecting"
  /\ connected' = FALSE
  /\ connecting' = "null"
  /\ attempts' = attempts - 1
  /\ client' = "closed"
  /\ pc' = [p \in Procs |-> IF pc[p] = "await_conn" THEN "conn_err" ELSE pc[p]]
  /\ UNCHANGED <<config, stats, serverUp, store, now, op, nops, getsDone>>
  /\ last' = NoRes

\* The client's 'ready' event (first connection or a reconnection).
ReadyEvent ==
  /\ client \in {"connecting", "reconnecting"}
  /\ UNCHANGED <<coordVars, peerVars, extVars>>
  /\ serverUp
  /\ client' = "ready"
  /\ connected' = TRUE
  /\ UNCHANGED <<config, stats, connecting, attempts, serverUp, store, now, pc, op, nops, getsDone>>
  /\ last' = NoRes

\* The server becomes unreachable: an open client starts reconnecting.
ServerDown ==
  /\ serverUp
  /\ UNCHANGED <<coordVars, peerVars, extVars>>
  /\ serverUp' = FALSE
  /\ client' = IF client = "ready" THEN "reconnecting" ELSE client
  /\ UNCHANGED <<config, stats, connected, connecting, attempts, store, now, pc, op, nops, getsDone>>
  /\ last' = NoRes

ServerBack ==
  /\ ~serverUp
  /\ UNCHANGED <<coordVars, peerVars, extVars>>
  /\ serverUp' = TRUE
  /\ UNCHANGED <<config, stats, connected, connecting, attempts, client, store, now,
                 pc, op, nops, getsDone>>
  /\ last' = NoRes

(***************************************************************************)
(* The continuations: what each operation does with the store's reply,     *)
(* and its catch block.                                                    *)
(***************************************************************************)
\* Outcomes of a store call: it can resolve only on a ready client with the
\* server reachable, and it can be rejected at any time.
CallOutcomes == IF client = "ready" /\ serverUp THEN {TRUE, FALSE} ELSE {FALSE}

Bump(s, f, n) == IF config.enableStats THEN [s EXCEPT ![f] = @ + n] ELSE s

\* A miss counted without refreshing the hit rate.
GetMissStatsStale(s) == IF config.enableStats THEN [s EXCEPT !.misses = @ + 1] ELSE s

\* get(): !value -> misses++, updateHitRate(), return null
GetMissStats(s) == IF config.enableStats
                   THEN updateHitRate([s EXCEPT !.misses = @ + 1]) ELSE s
\* get(): hits++
GetHitStats(s) == IF config.enableStats
                  THEN updateHitRate([s EXCEPT !.hits = @ + 1]) ELSE s
\* A catch block that counts nothing.
GetCatchNoCount(s) == s

\* get(): the catch block counts a miss ...
GetCatchStats(s) == IF config.enableStats
                    THEN updateHitRate([s EXCEPT !.misses = @ + 1]) ELSE s
\* ... and returns null.
GetCatch(r) == [r EXCEPT !.ret = <<VNull>>, !.threw = FALSE]

\* The value get/mget hand back for one reply: null when !value.
Falsy(reply) == reply.nil \/ reply.text = ""
GetValue(reply) == IF Falsy(reply) THEN VNull ELSE Deserialize(reply.text)

get(p, ok) ==
  LET o == op[p]
      fk == getKey(config, o.keys[1])
      reply == RedisGet(store, fk, now)
      r0 == [BaseRes(o) EXCEPT !.cmds = <<"GET">>, !.okCall = ok]
      r1 == [r0 EXCEPT !.found = <<~reply.nil>>, !.src = <<store[fk]>>,
                       !.ret = <<GetValue(reply)>>]
  IN /\ UNCHANGED store
     /\ IF ~ok THEN stats' = GetCatchStats(stats) /\ Finish(p, GetCatch(r0))
        ELSE IF Falsy(reply) THEN stats' = GetMissStats(stats) /\ Finish(p, r1)
        ELSE stats' = GetHitStats(stats) /\ Finish(p, r1)

\* A catch block that rethrows.
SetCatchRethrow(r) == [r EXCEPT !.threw = TRUE]

\* set(): the catch block logs and returns.
SetCatch(r) == [r EXCEPT !.threw = FALSE]

set(p, ok) ==
  LET o == op[p]
      fk == getKey(config, o.keys[1])
      secs == TtlSeconds(config, o.ttl)
      ser == Serialize(o.vals[1])
      r0 == BaseRes(o)
      r1 == [r0 EXCEPT !.cmds = <<"SETEX">>]
  IN IF ~ser.ok
     THEN UNCHANGED <<store, stats>> /\ Finish(p, SetCatch(r0))
     ELSE IF ok /\ RedisSetExOk(secs)
     THEN /\ store' = RedisSetEx(store, fk, secs, ser.text, now, o.vals[1],
                                 TtlMs(config, o.ttl))
          /\ stats' = Bump(stats, "sets", 1)
          /\ Finish(p, [r1 EXCEPT !.okCall = TRUE])
     ELSE UNCHANGED <<store, stats>> /\ Finish(p, SetCatch(r1))

\* delete(): the catch block logs and returns.
DeleteCatch(r) == [r EXCEPT !.threw = FALSE]

delete(p, ok) ==
  LET o == op[p]
      fk == getKey(config, o.keys[1])
      r1 == [BaseRes(o) EXCEPT !.cmds = <<"DEL">>]
  IN IF ok
     THEN /\ store' = RedisDel(store, fk)
          /\ stats' = Bump(stats, "deletes", 1)
          /\ Finish(p, [r1 EXCEPT !.okCall = TRUE])
     ELSE UNCHANGED <<store, stats>> /\ Finish(p, DeleteCatch(r1))

\* has(): the catch block returns false.
HasCatch(r) == [r EXCEPT !.retBool = FALSE, !.threw = FALSE]

has(p, ok) ==
  LET o == op[p]
      fk == getKey(config, o.keys[1])
      r1 == [BaseRes(o) EXCEPT !.cmds = <<"EXISTS">>]
  IN /\ UNCHANGED <<store, stats>>
     /\ IF ok
        THEN Finish(p, [r1 EXCEPT !.okCall = TRUE,
                                  !.retBool = (RedisExists(store, fk, now) = 1),
                                  !.src = <<store[fk]>>])
        ELSE Finish(p, HasCatch(r1))

\* mget(): the catch block returns keys.map(() => null).
MGetCatch(r) == [r EXCEPT !.ret = [i \in 1..Len(r.keys) |-> VNull], !.threw = FALSE]

\* MGET with no key is a Redis error (wrong number of arguments).
mget(p, ok) ==
  LET o == op[p]
      n == Len(o.keys)
      reply == [i \in 1..n |-> RedisGet(store, getKey(config, o.keys[i]), now)]
      r1 == [BaseRes(o) EXCEPT !.cmds = <<"MGET">>]
  IN /\ UNCHANGED <<store, stats>>
     /\ IF ok /\ n > 0
        THEN Finish(p, [r1 EXCEPT !.okCall = TRUE,
                          !.ret = [i \in 1..n |-> GetValue(reply[i])],
                          !.found = [i \in 1..n |-> ~reply[i].nil],
                          !.src = [i \in 1..n |-> store[getKey(config, o.keys[i])]]])
        ELSE Finish(p, MGetCatch(r1))

\* mset(): the catch block logs and returns.
MSetCatch(r) == [r EXCEPT !.threw = FALSE]

\* The pipeline's SETEX commands, applied in order.
RECURSIVE MSetApply(_, _, _, _, _)
MSetApply(st, o, secs, t, i) ==
  IF i > Len(o.keys) THEN st
  ELSE MSetApply(RedisSetEx(st, getKey(config, o.keys[i]), secs,
                            Serialize(o.vals[i]).text, t, o.vals[i],
                            TtlMs(config, o.ttl)),
                 o, secs, t, i + 1)

\* mset(): every value is serialized before the pipeline is sent, so one
\* value JSON.stringify throws on sends nothing.  When Redis rejects the
\* SETEX commands (seconds <= 0) nothing is stored; exec() then rejects or
\* resolves with the error replies, depending on the client's version.
mset(p, ok) ==
  LET o == op[p]
      n == Len(o.keys)
      secs == TtlSeconds(config, o.ttl)
      r0 == BaseRes(o)
      r1 == [r0 EXCEPT !.cmds = <<"MULTI">>]
  IN IF \E i \in 1..n : ~Serialize(o.vals[i]).ok
     THEN UNCHANGED <<store, stats>> /\ Finish(p, MSetCatch(r0))
     ELSE IF ~ok
     THEN UNCHANGED <<store, stats>> /\ Finish(p, MSetCatch(r1))
     ELSE IF RedisSetExOk(secs) \/ n = 0
     THEN /\ store' = MSetApply(store, o, secs, now, 1)
          /\ stats' = Bump(stats, "sets", n)
          /\ Finish(p, [r1 EXCEPT !.okCall = TRUE])
     ELSE /\ UNCHANGED store
          /\ \/ UNCHANGED stats /\ Finish(p, MSetCatch(r1))
             \/ stats' = Bump(stats, "sets", n) /\ Finish(p, [r1 EXCEPT !.okCall = TRUE])

\* An updateSize that keeps the size it has.
updateSizeKeeps(s, ok) == s

\* getStats() with stats enabled: updateSize() counts the keys under the
\* prefix; its catch block logs; a copy of the stats is returned.
updateSize(s, ok) ==
  IF ok THEN [s EXCEPT !.size = Cardinality(RedisScan(store, config.keyPrefix, now))]
  ELSE s

getStats(p, ok) ==
  LET o == op[p]
      r1 == [BaseRes(o) EXCEPT !.cmds = <<"SCAN">>, !.okCall = ok]
  IN /\ UNCHANGED store
     /\ stats' = updateSize(stats, ok)
     /\ Finish(p, [r1 EXCEPT !.retStats = updateSize(stats, ok)])

\* close(): quit() resolves -> connected = false; it rejects -> the catch
\* block awaits disconnect(), which itself rejects on a closed client.
close(p, ok) ==
  LET o == op[p]
      r1 == [BaseRes(o) EXCEPT !.cmds = <<"QUIT">>, !.okCall = ok]
  IN /\ UNCHANGED <<store, stats, connecting, attempts, serverUp>>
     /\ IF ok \/ client # "closed"
        THEN client' = "closed" /\ connected' = FALSE /\ Finish(p, r1)
        ELSE UNCHANGED <<client, connected>> /\ Finish(p, [r1 EXCEPT !.threw = TRUE])

\* The store call of the operation in flight settles.
Call(p) ==
  /\ pc[p] = "call"
  /\ UNCHANGED <<coordVars, peerVars, extVars>>
  /\ UNCHANGED <<config, now, nops>>
  /\ \E ok \in CallOutcomes :
       CASE op[p].name = "get" -> get(p, ok) /\ UNCHANGED connVars
         [] op[p].name = "set" -> set(p, ok) /\ UNCHANGED connVars
         [] op[p].name = "delete" -> delete(p, ok) /\ UNCHANGED connVars
         [] op[p].name = "has" -> has(p, ok) /\ UNCHANGED connVars
         [] op[p].name = "mget" -> mget(p, ok) /\ UNCHANGED connVars
         [] op[p].name = "mset" -> mset(p, ok) /\ UNCHANGED connVars
         [] op[p].name = "getStats" -> getStats(p, ok) /\ UNCHANGED connVars
         [] op[p].name = "close" -> close(p, ok)
         [] op[p].name = "init" ->
              /\ Finish(p, [BaseRes(op[p]) EXCEPT !.okCall = TRUE])
              /\ UNCHANGED <<store, stats, connVars>>

\* The connection attempt a caller awaited failed: its catch block runs
\* (init() itself rethrows).
Catch(p) ==
  LET r0 == BaseRes(op[p])
      n == op[p].name
  IN /\ pc[p] = "conn_err"
     /\ UNCHANGED <<coordVars, peerVars, extVars>>
     /\ UNCHANGED <<config, now, nops, store, connVars>>
     /\ stats' = IF n = "get" THEN GetCatchStats(stats) ELSE stats
     /\ Finish(p, CASE n = "get" -> GetCatch(r0)
                    [] n = "set" -> SetCatch(r0)
                    [] n = "delete" -> DeleteCatch(r0)
                    [] n = "has" -> HasCatch(r0)
                    [] n = "mget" -> MGetCatch(r0)
                    [] n = "mset" -> MSetCatch(r0)
                    [] n = "getStats" -> [r0 EXCEPT !.retStats = stats]
                    [] OTHER -> [r0 EXCEPT !.threw = TRUE])

(***************************************************************************)
(* SQLiteStorage, as the coordinator's storage collaborator.  stmtOk says  *)
(* whether the prepared statement ran (it throws on a locked or corrupt    *)
(* database, a full disk, a closed handle).  Results are [threw, v].       *)
(***************************************************************************)
Guilds == {"g1", "g2"}
TrackedGuild == "g1"
TrackedUser == "u1"
SortCriteria == {"xp", "level", "voiceTime"}

DbInit == [xp |-> 0, rev |-> 0]

\* getUser(guildId, userId): the row, null when there is none; the catch
\* block logs and returns null.
SQLiteGetUser(d, g, u, stmtOk) ==
  IF ~stmtOk THEN [threw |-> FALSE, v |-> VNull]
  ELSE IF g = TrackedGuild /\ u = TrackedUser THEN [threw |-> FALSE, v |-> UserData(d.xp)]
  ELSE [threw |-> FALSE, v |-> VNull]

\* getLeaderboard(guildId, sortBy, limit, offset): the guild's rows in
\* order from row `offset` on (the tracked guild has one user row); the catch
\* block logs and returns [].
SQLiteGetLeaderboard(d, g, sortBy, offset, stmtOk) ==
  IF ~stmtOk THEN [threw |-> FALSE, v |-> NoRows]
  ELSE IF g = TrackedGuild /\ offset = 0 THEN [threw |-> FALSE, v |-> LeaderboardRows(d.xp)]
  ELSE [threw |-> FALSE, v |-> NoRows]

\* getGuild(guildId): the guild's row with its config; the catch block logs
\* and returns null.
SQLiteGetGuild(d, g, stmtOk) ==
  IF ~stmtOk THEN [threw |-> FALSE, v |-> VNull]
  ELSE IF g = TrackedGuild THEN [threw |-> FALSE, v |-> GuildData(d.rev)]
  ELSE [threw |-> FALSE, v |-> VNull]

\* saveUser(guildId, userData): INSERT OR REPLACE; the catch block logs and
\* rethrows.  Results are [threw, db].
SQLiteSaveUser(d, g, u, xp, stmtOk) ==
  IF stmtOk THEN [threw |-> FALSE, db |-> [d EXCEPT !.xp = xp]]
  ELSE [threw |-> TRUE, db |-> d]

\* saveGuild(guildData): one transaction; the catch block logs and rethrows.
SQLiteSaveGuild(d, g, rev, stmtOk) ==
  IF stmtOk THEN [threw |-> FALSE, db |-> [d EXCEPT !.rev = rev]]
  ELSE [threw |-> TRUE, db |-> d]

(***************************************************************************)
(* The coordinator's cache keys: entity kind and identifying fields.       *)
(***************************************************************************)
UserKey(g, u) == "user:" \o g \o ":" \o u
LeaderboardKey(g, sortBy) == "leaderboard:" \o g \o ":" \o sortBy
GuildConfigKey(g) == "guildConfig:" \o g

CoordKeys ==
  {UserKey(TrackedGuild, TrackedUser), GuildConfigKey(TrackedGuild)}
    \cup {LeaderboardKey(g, s) : g \in Guilds, s \in SortCriteria}

(***************************************************************************)
(* A RedisCache call as its caller sees it: it never rejects; ok says      *)
(* whether the connection and the store command succeeded.                 *)
(***************************************************************************)
\* get(key): [hit, v, src]; null on a nil or empty reply and on any error.
CacheGet(st, cfg, key, t, ok) ==
  LET fk == getKey(cfg, key)
      reply == RedisGet(st, fk, t)
  IN IF ok /\ ~Falsy(reply)
     THEN [hit |-> GetValue(reply) # VNull, v |-> GetValue(reply), src |-> st[fk]]
     ELSE [hit |-> FALSE, v |-> VNull, src |-> NoEntry]

\* set(key, value) with the default ttl: the store after the call.
CacheSet(st, cfg, key, v, t, ok) ==
  LET ser == Serialize(v)
      secs == TtlSeconds(cfg, 0)
  IN IF ok /\ ser.ok /\ RedisSetExOk(secs)
     THEN RedisSetEx(st, getKey(cfg, key), secs, ser.text, t, v, TtlMs(cfg, 0))
     ELSE st

\* delete(key): the store after the call.
CacheDelete(st, cfg, key, ok) == IF ok THEN RedisDel(st, getKey(cfg, key)) ELSE st

\* has(key): exists === 1, false on any error.
CacheHas(st, cfg, key, t, ok) == ok /\ RedisExists(st, getKey(cfg, key), t) = 1

\* mget(keys): one value per key, null for a nil or empty reply; all null on
\* any error.
CacheMGet(st, cfg, keys, t, ok) ==
  [i \in 1..Len(keys) |->
     IF ok /\ Len(keys) > 0 THEN GetValue(RedisGet(st, getKey(cfg, keys[i]), t))
     ELSE VNull]

\* getStats().size with stats enabled: the keys SCAN finds under the prefix;
\* the size counted before when updateSize fails.
CacheSize(st, cfg, t, ok, before) ==
  IF ok THEN Cardinality(RedisScan(st, cfg.keyPrefix, t)) ELSE before

(***************************************************************************)
(* The coordinator (VoiceManager's cached reads and its invalidation after *)
(* writes).  Every await is a suspension: the cache call, the storage call *)
(* and the next cache call of one read or write are separate steps.        *)
(***************************************************************************)
Reads == {"getUser", "getLeaderboard", "getGuildConfig"}
Writes == {"addXP", "editConfig"}

IdleCop == [name |-> "none", g |-> "", sortBy |-> "", offset |-> 0, floor |-> DbInit,
            w |-> "none", wrote |-> 0, plan |-> << >>, fetched |-> VNull,
            stmtThrew |-> FALSE]

\* The reads and writes explored.
CoordInputs ==
       [name : {"getUser", "getGuildConfig", "addXP", "editConfig"},
        g : {TrackedGuild}, sortBy : {""}, offset : {0}]
  \cup [name : {"getLeaderboard"}, g : {TrackedGuild}, sortBy : SortCriteria,
        offset : {0}]
  \cup [name : {"getLeaderboard"}, g : Guilds \ {TrackedGuild}, sortBy : {"xp"},
        offset : {0}]

\* The key a read looks up.
ReadKey(o) ==
  CASE o.name = "getUser" -> UserKey(o.g, TrackedUser)
    [] o.name = "getLeaderboard" -> LeaderboardKey(o.g, o.sortBy)
    [] OTHER -> GuildConfigKey(o.g)

\* The keys a write invalidates: the user's key and every leaderboard of
\* the guild; the guild's config key when the config changed.
InvalidationKeys(o) ==
  IF o.name = "addXP"
  THEN {UserKey(o.g, TrackedUser)} \cup {LeaderboardKey(o.g, s) : s \in SortCriteria}
  ELSE {GuildConfigKey(o.g)}

\* A write invalidating before it writes.
WriteProtocolInvalidateFirst == <<"inval", "write">>

\* A write applies to storage first and invalidates afterwards.
WriteProtocol == <<"write", "inval">>

\* What a coordinator step leaves in `clast`.
\*   done           the read or write returned in this step
\*   threw          it rejected
\*   hit, ret       the read was served from the cache; the value returned
\*   src, srcEpoch  the entry served and `committed.xp` when it was cached
\*   floor          `committed` when the read or write started
\*   dels           the keys this step called delete on
\*   w              the state of this write's storage call
\*   storageCalled, stmtThrew   the read queried storage; the statement threw
\*   cacheSet       the read called set (with the default ttl)
CEvent(o) ==
  [name |-> o.name, g |-> o.g, sortBy |-> o.sortBy, offset |-> o.offset,
   done |-> FALSE,
   threw |-> FALSE, hit |-> FALSE, ret |-> VNull, src |-> NoEntry, srcEpoch |-> 0,
   floor |-> o.floor, dels |-> {}, w |-> o.w, storageCalled |-> FALSE,
   stmtThrew |-> FALSE, cacheSet |-> FALSE, at |-> now]

NoCRes == [CEvent(IdleCop) EXCEPT !.at = 0]

InitCoordIdle ==
  /\ db = DbInit
  /\ cpc = [p \in Procs |-> "idle"]
  /\ cop = [p \in Procs |-> IdleCop]
  /\ clast = NoCRes
  /\ committed = DbInit
  /\ epoch = [k \in CoordKeys |-> 0]

cacheIdle == <<config, stats, connVars, pc, op, last, getsDone, peerVars, extVars>>

Max(a, b) == IF a > b THEN a ELSE b

\* The read or write of caller p returns.
Return(p, o, ev) ==
  /\ cpc' = [cpc EXCEPT ![p] = "idle"]
  /\ cop' = [cop EXCEPT ![p] = IdleCop]
  /\ clast' = [ev EXCEPT !.done = TRUE]
  /\ committed' = IF o.w = "acked" /\ ~ev.threw
                  THEN IF o.name = "addXP"
                       THEN [committed EXCEPT !.xp = Max(@, o.wrote)]
                       ELSE [committed EXCEPT !.rev = Max(@, o.wrote)]
                  ELSE committed

\* Caller p goes on to the next step of its write, or returns after the last.
Advance(p, o, ev) ==
  IF o.plan = << >> THEN Return(p, o, ev)
  ELSE /\ cpc' = [cpc EXCEPT ![p] = Head(o.plan)]
       /\ cop' = [cop EXCEPT ![p] = [o EXCEPT !.plan = Tail(@)]]
       /\ clast' = ev
       /\ UNCHANGED committed

\* The service layer calls a read or a write.
CoordStart(p, o) ==
  /\ cpc[p] = "idle"
  /\ \A q \in Procs : cpc[q] = "idle" => p <= q    \* callers are interchangeable
  /\ nops < MaxOps
  /\ nops' = nops + 1
  /\ LET c == [IdleCop EXCEPT !.name = o.name, !.g = o.g, !.sortBy = o.sortBy,
                              !.offset = o.offset, !.floor = committed]
     IN IF o.name \in Reads
        THEN /\ cpc' = [cpc EXCEPT ![p] = "lookup"]
             /\ cop' = [cop EXCEPT ![p] = c]
        ELSE /\ cpc' = [cpc EXCEPT ![p] = Head(WriteProtocol)]
             /\ cop' = [cop EXCEPT ![p] = [c EXCEPT !.w = "pending",
                                                    !.plan = Tail(WriteProtocol)]]
  /\ clast' = NoCRes
  /\ UNCHANGED <<cacheIdle, store, now, db, committed, epoch>>

\* A read's cache.get(key) returns: a hit is returned at once.
Lookup(p) ==
  /\ cpc[p] = "lookup"
  /\ \E ok \in BOOLEAN :
       LET o == cop[p]
           r == CacheGet(store, config, ReadKey(o), now, ok)
       IN IF r.hit
          THEN Return(p, o, [CEvent(o) EXCEPT !.hit = TRUE, !.ret = r.v, !.src = r.src,
                                              !.srcEpoch = epoch[ReadKey(o)]])
          ELSE /\ cpc' = [cpc EXCEPT ![p] = "fetch"]
               /\ clast' = NoCRes
               /\ UNCHANGED <<cop, committed>>
  /\ UNCHANGED <<cacheIdle, store, now, nops, db, epoch>>

\* The storage call of a read.
StorageRead(o, stmtOk) ==
  CASE o.name = "getUser" -> SQLiteGetUser(db, o.g, TrackedUser, stmtOk)
    [] o.name = "getLeaderboard" -> SQLiteGetLeaderboard(db, o.g, o.sortBy, o.offset, stmtOk)
    [] OTHER -> SQLiteGetGuild(db, o.g, stmtOk)

\* After a miss the read's storage call returns; an error it throws is the
\* read's.
Fetch(p) ==
  /\ cpc[p] = "fetch"
  /\ \E stmtOk \in BOOLEAN :
       LET o == cop[p]
           r == StorageRead(o, stmtOk)
       IN IF r.threw
          THEN Return(p, o, [CEvent(o) EXCEPT !.threw = TRUE, !.storageCalled = TRUE,
                                              !.stmtThrew = ~stmtOk])
          ELSE /\ cpc' = [cpc EXCEPT ![p] = "fill"]
               /\ cop' = [cop EXCEPT ![p] = [o EXCEPT !.fetched = r.v,
                                                      !.stmtThrew = ~stmtOk]]
               /\ clast' = NoCRes
               /\ UNCHANGED committed
  /\ UNCHANGED <<cacheIdle, store, now, nops, db, epoch>>

\* The read's cache.set(key, fetched) returns, and the read returns what it
\* fetched.
Fill(p) ==
  /\ cpc[p] = "fill"
  /\ \E ok \in BOOLEAN :
       LET o == cop[p]
           st == CacheSet(store, config, ReadKey(o), o.fetched, now, ok)
           fk == getKey(config, ReadKey(o))
           stored == ok /\ st[fk].present /\ st[fk].setAt = now /\ st[fk].orig = o.fetched
       IN /\ store' = st
          /\ epoch' = IF stored THEN [epoch EXCEPT ![ReadKey(o)] = committed.xp]
                      ELSE epoch
          /\ Return(p, o, [CEvent(o) EXCEPT !.ret = o.fetched, !.storageCalled = TRUE,
                                            !.stmtThrew = o.stmtThrew, !.cacheSet = TRUE])
  /\ UNCHANGED <<cacheIdle, now, nops, db>>

\* An increment computed from the total known when the write started.
StorageWriteStale(o, stmtOk) ==
  IF o.name = "addXP" THEN SQLiteSaveUser(db, o.g, TrackedUser, o.floor.xp + 1, stmtOk)
  ELSE SQLiteSaveGuild(db, o.g, db.rev + 1, stmtOk)

\* The storage call of a write: the user's counters are read, increased and
\* saved on one update path; a config edit saves the guild.
StorageWrite(o, stmtOk) ==
  IF o.name = "addXP" THEN SQLiteSaveUser(db, o.g, TrackedUser, db.xp + 1, stmtOk)
  ELSE SQLiteSaveGuild(db, o.g, db.rev + 1, stmtOk)

\* The write's storage call returns: acknowledged, or it threw and the write
\* rejects.
Write(p) ==
  /\ cpc[p] = "write"
  /\ \E stmtOk \in BOOLEAN :
       LET o == cop[p]
           r == StorageWrite(o, stmtOk)
           o2 == [o EXCEPT !.w = "acked",
                           !.wrote = IF o.name = "addXP" THEN r.db.xp ELSE r.db.rev]
       IN IF r.threw
          THEN /\ Return(p, o, [CEvent(o) EXCEPT !.threw = TRUE, !.w = "failed"])
               /\ UNCHANGED db
          ELSE /\ db' = r.db
               /\ Advance(p, o2, CEvent(o2))
  /\ UNCHANGED <<cacheIdle, store, now, nops, epoch>>

\* cache.delete on each of the keys, each call failing or not on its own.
RECURSIVE CacheDeleteAll(_, _, _, _)
CacheDeleteAll(st, cfg, keys, failed) ==
  IF keys = {} THEN st
  ELSE LET k == CHOOSE x \in keys : TRUE
       IN CacheDeleteAll(CacheDelete(st, cfg, k, k \notin failed), cfg,
                         keys \ {k}, failed)

\* The write's invalidation.
Invalidate(p) ==
  /\ cpc[p] = "inval"
  /\ \E failed \in SUBSET InvalidationKeys(cop[p]) :
       LET o == cop[p]
       IN /\ store' = CacheDeleteAll(store, config, InvalidationKeys(o), failed)
          /\ Advance(p, o, [CEvent(o) EXCEPT !.dels = InvalidationKeys(o)])
  /\ UNCHANGED <<cacheIdle, now, nops, db, epoch>>

(***************************************************************************)
(* The specifications.                                                     *)
(***************************************************************************)
\* The clock advances.
Tick ==
  /\ now < MaxTicks * 500
  /\ now' = now + 500
  /\ last' = NoRes
  /\ clast' = NoCRes
  /\ UNCHANGED <<config, stats, connVars, store, pc, op, nops, getsDone>>
  /\ UNCHANGED <<db, cpc, cop, committed, epoch, peerVars, extVars>>

InitRedis(inputs) ==
  /\ config \in {RedisCacheConfig(c) : c \in inputs}
  /\ stats = StatsZero
  /\ connected = FALSE
  /\ connecting = "null"
  /\ attempts = 0
  /\ client = "closed"
  /\ serverUp = TRUE
  /\ store = [fk \in StoreKeys |-> NoEntry]
  /\ now = 0
  /\ pc = [p \in Procs |-> "idle"]
  /\ op = [p \in Procs |-> IdleOp]
  /\ last = NoRes
  /\ nops = 0
  /\ getsDone = 0
  /\ InitCoordIdle
  /\ InitPeerIdle
  /\ InitExtIdle

vars == <<redisVars, coordVars, peerVars, extVars>>

\* The steps of the cache's environment and of the calls in flight.
Run ==
  \/ \E p \in Procs : Call(p)
  \/ \E p \in Procs : Catch(p)
  \/ ConnectResolve
  \/ ConnectReject
  \/ ReadyEvent
  \/ ServerDown
  \/ ServerBack

Init == InitRedis(ConfigInputs)

Next ==
  \/ \E p \in Procs, o \in OpInputs : Start(p, o)
  \/ Run

Spec == Init /\ [][Next]_vars

InitVal == InitRedis(ValConfigInputs)

NextVal ==
  \/ \E p \in Procs, o \in ValInputs : Start(p, o)
  \/ Run
  \/ Tick

SpecVal == InitVal /\ [][NextVal]_vars

CoordConfigInputs == [ttl : {1000}, enableStats : {TRUE}, keyPrefix : {""}]

InitCoord ==
  /\ config \in {RedisCacheConfig(c) : c \in CoordConfigInputs}
  /\ stats = StatsZero
  /\ connected = TRUE
  /\ connecting = "null"
  /\ attempts = 0
  /\ client = "ready"
  /\ serverUp = TRUE
  /\ store = [fk \in {getKey(config, k) : k \in CoordKeys} |-> NoEntry]
  /\ now = 0
  /\ pc = [p \in Procs |-> "idle"]
  /\ op = [p \in Procs |-> IdleOp]
  /\ last = NoRes
  /\ nops = 0
  /\ getsDone = 0
  /\ InitCoordIdle
  /\ InitPeerIdle
  /\ InitExtIdle

NextCoord ==
  \/ \E p \in Procs, o \in CoordInputs : CoordStart(p, o)
  \/ \E p \in Procs : Lookup(p)
  \/ \E p \in Procs : Fetch(p)
  \/ \E p \in Procs : Fill(p)
  \/ \E p \in Procs : Write(p)
  \/ \E p \in Procs : Invalidate(p)
  \/ Tick

SpecCoord == InitCoord /\ [][NextCoord]_vars

\* The coordinator under reads alone, with leaderboard pages at two offsets.
CoordReadInputs ==
       [name : {"getUser", "getGuildConfig"}, g : {TrackedGuild}, sortBy : {""},
        offset : {0}]
  \cup [name : {"getLeaderboard"}, g : {TrackedGuild}, sortBy : {"xp", "level"},
        offset : 0..MaxOffset]

NextCoordRead ==
  \/ \E p \in Procs, o \in CoordReadInputs : CoordStart(p, o)
  \/ \E p \in Procs : Lookup(p)
  \/ \E p \in Procs : Fetch(p)
  \/ \E p \in Procs : Fill(p)
  \/ Tick

SpecCoordRead == InitCoord /\ [][NextCoordRead]_vars

(***************************************************************************)
(* Two RedisCache instances with different configured prefixes on one      *)
(* Redis server: instance 1 is `config`, instance 2 is `peer`.             *)
(***************************************************************************)
Instances == {1, 2}
ConfigOf(i) == IF i = 1 THEN config ELSE peer

\* The value each instance writes (so an entry tells which instance wrote it).
InstanceValue(i) == IF i = 1 THEN VObj ELSE VNum

SharedPrefixes == {"a:", "a:b", "c:"}
SharedKeys == {"k", "bk"}
SharedConfigInputs == [ttl : {0}, enableStats : {TRUE}, keyPrefix : SharedPrefixes]

InitShared ==
  /\ \E c1, c2 \in SharedConfigInputs :
       /\ c1.keyPrefix # c2.keyPrefix
       /\ config = RedisCacheConfig(c1)
       /\ peer = RedisCacheConfig(c2)
  /\ stats = StatsZero
  /\ connected = TRUE
  /\ connecting = "null"
  /\ attempts = 0
  /\ client = "ready"
  /\ serverUp = TRUE
  /\ store = [fk \in {pre \o k : pre \in SharedPrefixes, k \in SharedKeys} |-> NoEntry]
  /\ now = 0
  /\ pc = [p \in Procs |-> "idle"]
  /\ op = [p \in Procs |-> IdleOp]
  /\ last = NoRes
  /\ nops = 0
  /\ getsDone = 0
  /\ InitCoordIdle
  /\ shared = NoShared
  /\ InitExtIdle

sharedIdle == <<config, peer, stats, connVars, now, pc, op, last, nops, getsDone,
                coordVars, extVars>>

\* Instance i: set(k, its value).
SharedSet(i, k) ==
  /\ \E ok \in BOOLEAN :
       store' = CacheSet(store, ConfigOf(i), k, InstanceValue(i), now, ok)
  /\ shared' = [NoShared EXCEPT !.inst = i, !.name = "set", !.keys = <<k>>]
  /\ UNCHANGED sharedIdle

\* Instance i: delete(k).
SharedDelete(i, k) ==
  /\ \E ok \in BOOLEAN : store' = CacheDelete(store, ConfigOf(i), k, ok)
  /\ shared' = [NoShared EXCEPT !.inst = i, !.name = "delete", !.keys = <<k>>]
  /\ UNCHANGED sharedIdle

\* Instance i: get(k).
SharedGet(i, k) ==
  /\ \E ok \in BOOLEAN :
       shared' = [NoShared EXCEPT !.inst = i, !.name = "get", !.keys = <<k>>,
                    !.ret = <<CacheGet(store, ConfigOf(i), k, now, ok).v>>]
  /\ UNCHANGED <<store, sharedIdle>>

\* Instance i: has(k).
SharedHas(i, k) ==
  /\ \E ok \in BOOLEAN :
       shared' = [NoShared EXCEPT !.inst = i, !.name = "has", !.keys = <<k>>,
                    !.retBool = CacheHas(store, ConfigOf(i), k, now, ok)]
  /\ UNCHANGED <<store, sharedIdle>>

\* Instance i: mget(ks).
SharedMGet(i, ks) ==
  /\ \E ok \in BOOLEAN :
       shared' = [NoShared EXCEPT !.inst = i, !.name = "mget", !.keys = ks,
                    !.ret = CacheMGet(store, ConfigOf(i), ks, now, ok)]
  /\ UNCHANGED <<store, sharedIdle>>

\* Instance i: getStats().
SharedGetStats(i) ==
  /\ \E ok \in BOOLEAN :
       shared' = [NoShared EXCEPT !.inst = i, !.name = "getStats",
                    !.size = CacheSize(store, ConfigOf(i), now, ok, 0)]
  /\ UNCHANGED <<store, sharedIdle>>

NextShared ==
  \/ \E i \in Instances, k \in SharedKeys : SharedSet(i, k)
  \/ \E i \in Instances, k \in SharedKeys : SharedDelete(i, k)
  \/ \E i \in Instances, k \in SharedKeys : SharedGet(i, k)
  \/ \E i \in Instances, k \in SharedKeys : SharedHas(i, k)
  \/ \E i \in Instances : SharedMGet(i, <<"k", "bk">>)
  \/ \E i \in Instances : SharedGetStats(i)

SpecShared == InitShared /\ [][NextShared]_vars

(***************************************************************************)
(* Claims about RedisCache.                                                *)
(***************************************************************************)
Counters(s) == <<s.hits, s.misses, s.sets, s.deletes>>

\* C1: no cache operation (get, set, delete, has, mget, mset, clear,
\* getStats) rejects, whatever the connection does; when the connection
\* attempt or the store call fails, get returns null, has returns false,
\* mget returns one null per requested key, and set, delete and mset change
\* neither the store nor the counters.
C1_NeverThrows ==
  /\ [](last.name \in CacheOps =>
          /\ ~last.threw
          /\ ~last.okCall =>
               /\ last.name = "get" => last.ret = <<VNull>>
               /\ last.name = "has" => ~last.retBool
               /\ last.name = "mget" =>
                    /\ Len(last.ret) = Len(last.keys)
                    /\ \A i \in 1..Len(last.ret) : last.ret[i] = VNull)
  /\ [][(last'.name \in {"set", "delete", "mset"} /\ ~last'.okCall) =>
          (store' = store /\ stats' = stats)]_vars

\* A two-key mget failed and completed.
C1_Witness == last.name = "mget" /\ ~last.okCall /\ Len(last.keys) = 2

\* C7: a get that reads a live entry returns exactly the value its set call
\* was given.
C7_RoundTrip ==
  (last.name = "get" /\ last.okCall /\ last.src[1].present
     /\ last.at < last.src[1].exp)
  => last.ret[1] = last.src[1].orig

\* C8: an entry written by set with ttl t (the override, or the default) is
\* found by every get less than t ms after the set and by none more than t
\* ms after it.
C8_TtlExpiry ==
  (last.name = "get" /\ last.okCall /\ last.src[1].present)
  => LET e == last.src[1]
     IN /\ last.at - e.setAt < e.ttlMs => last.found[1]
        /\ last.at - e.setAt > e.ttlMs => ~last.found[1]

C10_GetCountsOnce ==
  /\ [](config.enableStats => stats.hits + stats.misses = getsDone)
  /\ [][(config.enableStats /\ last'.name = "get") =>
          \/ stats'.hits = stats.hits + 1 /\ stats'.misses = stats.misses
          \/ stats'.hits = stats.hits /\ stats'.misses = stats.misses + 1]_vars

\* A get failed on the connection or the store and was counted as a miss,
\* after an earlier get.
C10_Witness ==
  /\ config.enableStats /\ last.name = "get" /\ ~last.okCall
  /\ stats.misses >= 1 /\ getsDone = 2

(***************************************************************************)
(* Claims about the coordinator.                                           *)
(***************************************************************************)
\* The xp a user's row carries.
XpOf(v) == CHOOSE n \in 0..MaxOps : UserData(n) = v

\* C2: a getUser that starts after an XP write has completed (storage write
\* acknowledged, invalidation done) returns that write's xp or a newer one,
\* never an older one.
C2_ReadAfterWrite ==
  (clast.done /\ clast.name = "getUser" /\ ~clast.threw /\ clast.ret # VNull)
  => XpOf(clast.ret) >= clast.floor.xp

\* C3: a write calls delete only when its storage write has been
\* acknowledged; a write whose storage call fails calls no delete and rejects;
\* an entry leaves the store through an invalidation only in such a step.
C3_InvalidateAfterAck ==
  /\ [](clast.dels # {} => clast.w = "acked")
  /\ [](clast.w = "failed" => (clast.dels = {} /\ clast.done /\ clast.threw))
  /\ [][(\E fk \in DOMAIN store : store[fk].present /\ ~store'[fk].present)
          => (clast'.w = "acked" /\ db.xp + db.rev >= 1)]_vars

\* An acknowledged XP write has just invalidated: the user's entry is gone,
\* the guild's cached config is still there.
C3_Witness ==
  /\ clast.name = "addXP" /\ clast.dels # {} /\ clast.w = "acked" /\ clast.done
  /\ db.xp = 1
  /\ epoch[UserKey(TrackedGuild, TrackedUser)] = 0
  /\ ~store[getKey(config, UserKey(TrackedGuild, TrackedUser))].present
  /\ store[getKey(config, GuildConfigKey(TrackedGuild))].present

\* C4: an XP write calls delete on the user's key and on the guild's
\* leaderboard key of every sort criterion, and changes no other key; a
\* leaderboard read of that guild that starts after the write has completed
\* is not served from an entry cached before the write completed.
C4_LeaderboardFanOut ==
  /\ []((clast.name = "addXP" /\ clast.dels # {}) =>
          clast.dels = {UserKey(clast.g, TrackedUser)}
                         \cup {LeaderboardKey(clast.g, s) : s \in SortCriteria})
  /\ [][(clast'.name = "addXP" /\ clast'.dels # {}) =>
          \A k \in CoordKeys \ clast'.dels :
             store'[getKey(config, k)] = store[getKey(config, k)]]_vars
  /\ []((clast.done /\ clast.name = "getLeaderboard" /\ clast.g = TrackedGuild
           /\ clast.hit) => clast.srcEpoch >= clast.floor.xp)

\* C5: a read served from the cache returns an entry that was written to
\* the cache at most config.ttl ms earlier.
C5_StalenessBound ==
  clast.hit => (clast.at - clast.src.setAt <= config.ttl /\ clast.src.ttlMs = config.ttl)

\* A read was served an entry cached 500 ms earlier.
C5_Witness == clast.hit /\ clast.at - clast.src.setAt = 500

\* C6: a read served from the cache does not call storage; a read that
\* misses calls storage, calls set with what it fetched and returns it; a
\* read whose storage statement throws rejects and calls no set.
C6_CacheAside ==
  (clast.done /\ clast.name \in Reads) =>
     /\ clast.hit => (~clast.storageCalled /\ ~clast.cacheSet)
     /\ (~clast.hit /\ ~clast.threw) => (clast.storageCalled /\ clast.cacheSet)
     /\ clast.stmtThrew => (clast.threw /\ ~clast.cacheSet)

(***************************************************************************)
(* Claims about RedisCache: statistics and the connection.                 *)
(***************************************************************************)
\* C11: in every state stats.hitRate is hits / (hits + misses) when a get
\* has been counted, and 0 otherwise.
C11_HitRate ==
  LET total == stats.hits + stats.misses
  IN IF total > 0
     THEN stats.hitRate[1] * total = stats.hits * stats.hitRate[2] /\ stats.hitRate[2] > 0
     ELSE stats.hitRate[1] = 0

\* A hit and a miss have been counted.
C11_Witness == stats.hits = 1 /\ stats.misses = 1 /\ last.name = "get"

\* The entries of a completed set or mset are in the store as given.
Stored(l, st) ==
  \A i \in 1..Len(l.keys) :
     LET e == st[getKey(config, l.keys[i])]
     IN e.present /\ e.orig = l.vals[i] /\ e.ttlMs = TtlMs(config, l.ttl)

\* C12: with stats enabled, a set or mset whose entries the store accepted
\* adds their number to stats.sets; a set, mset or delete that the
\* connection or the store failed changes no entry and neither sets nor
\* deletes.
C12_SetsCountWrites ==
  [][config.enableStats =>
       /\ last'.name \in {"set", "mset"} =>
            IF last'.okCall /\ Stored(last', store')
            THEN stats'.sets = stats.sets + Len(last'.keys)
            ELSE store' = store /\ stats'.sets = stats.sets
                   /\ stats'.deletes = stats.deletes
       /\ (last'.name = "delete" /\ ~last'.okCall) =>
            (store' = store /\ stats'.sets = stats.sets
               /\ stats'.deletes = stats.deletes)]_vars

\* C13: no step decreases hits, misses, sets or deletes.
C13_CountersMonotonic ==
  [][/\ stats'.hits >= stats.hits
     /\ stats'.misses >= stats.misses
     /\ stats'.sets >= stats.sets
     /\ stats'.deletes >= stats.deletes]_vars

\* clear() has returned on an instance that has counted a set and a get.
C13_Witness ==
  last.name = "clear" /\ stats.sets = 1 /\ stats.hits + stats.misses = 1

\* C14: at most one client.connect() call is unsettled at any time; it is
\* unsettled exactly while this.connecting holds its promise; every caller
\* waiting for the connection waits for that one attempt, and a call made
\* while it is in flight starts no other.
C14_SingleConnect ==
  /\ [](attempts <= 1)
  /\ []((attempts = 1) <=> (connecting = "pending"))
  /\ []((\E p \in Procs : pc[p] = "await_conn") => attempts = 1)
  /\ [][connecting = "pending" => attempts' <= attempts]_vars

\* Both callers wait for the one attempt in flight.
C14_Witness ==
  /\ \A p \in Procs : pc[p] = "await_conn"
  /\ attempts = 1
  /\ \E p \in Procs : op[p].name = "init"
  /\ \E p \in Procs : op[p].name = "get"

\* The constructor has started no connection attempt.
NotConnecting == attempts = 0 /\ connecting = "null" /\ ~connected /\ client = "closed"

\* A step in which the connection attempt in flight rejects.
AttemptFails == \E p \in Procs : pc[p] = "await_conn" /\ pc'[p] = "conn_err"

\* C15, as stated: construction starts no attempt; any operation called
\* while the instance is not connected and no attempt is in flight starts
\* one; a failed attempt clears the marker.
C15_AnyOperationConnects ==
  /\ NotConnecting
  /\ [][(nops' = nops + 1 /\ ~connected /\ connecting = "null")
          => (attempts' = 1 /\ connecting' = "pending")]_vars
  /\ [][AttemptFails => (connecting' = "null" /\ ~connected' /\ attempts' = 0)]_vars

\* C15, amended: construction starts no attempt; an operation called while
\* the instance is not connected and no attempt is in flight starts one,
\* unless it is clear(), close() or getStats() with statistics disabled,
\* which return at once and start none; a failed attempt clears the marker
\* and the flag, so the next such operation starts a fresh attempt.
C15_LazyConnect ==
  /\ NotConnecting
  /\ [][(nops' = nops + 1 /\ ~connected /\ connecting = "null")
          => \/ attempts' = 1 /\ connecting' = "pending"
             \/ /\ last'.name \in {"clear", "close"}
                   \/ (last'.name = "getStats" /\ ~config.enableStats)
                /\ attempts' = 0 /\ connecting' = "null"]_vars
  /\ [][AttemptFails => (connecting' = "null" /\ ~connected' /\ attempts' = 0)]_vars

\* A fresh attempt is in flight while the caller of the failed one has not
\* yet run its catch block.
C15_Witness ==
  /\ attempts = 1 /\ connecting = "pending"
  /\ \E p, q \in Procs : pc[p] = "conn_err" /\ pc[q] = "await_conn"

\* C16: whenever the client has no live connection to the store (never
\* opened, reconnecting after a loss, or closed), connected is false.
C16_ConnectedMeansLive == (client # "ready" \/ ~serverUp) => ~connected

\* The live entries of the store that instance i wrote.
OwnEntries(i) ==
  {fk \in DOMAIN store : Live(store, fk, now) /\ store[fk].orig = InstanceValue(i)}

\* C17: of two instances with different configured prefixes on one store,
\* neither's get or mget returns a value the other wrote, neither's has is
\* true for an entry the other wrote, and getStats().size of each counts no
\* entry the other wrote.
C17_PrefixIsolation ==
  LET i == shared.inst
      other == 3 - i
  IN /\ shared.name \in {"get", "mget"} =>
          \A n \in 1..Len(shared.ret) : shared.ret[n] # InstanceValue(other)
     /\ (shared.name = "has" /\ shared.retBool) =>
          getKey(ConfigOf(i), shared.keys[1]) \in OwnEntries(i)
     /\ shared.name = "getStats" => shared.size <= Cardinality(OwnEntries(i))

\* C18: a completing mget returns one element per key, element i being
\* what get(keys[i]) returns on the same store (null when the call fails),
\* and with stats enabled it counts each key as one hit or one miss.
C18_MGetAsGet ==
  [][last'.name = "mget" =>
       LET l == last'
           n == Len(l.keys)
       IN /\ Len(l.ret) = n
          /\ \A i \in 1..n :
               l.ret[i] = CacheGet(store, config, l.keys[i], now, l.okCall).v
          /\ config.enableStats =>
               /\ stats'.hits + stats'.misses = stats.hits + stats.misses + n
               /\ stats'.hits - stats.hits =
                    Cardinality({i \in 1..n : l.ret[i] # VNull})]_vars

\* C19: when mset runs on a live connection and one of its values cannot be
\* serialized, every other entry of the batch is in the store afterwards as
\* set(key, value, ttl) would have written it.
C19_MSetPartialFailure ==
  [][(last'.name = "mset" /\ client = "ready" /\ serverUp
        /\ \E i \in 1..Len(last'.keys) : ~Serialize(last'.vals[i]).ok) =>
       LET l == last'
           secs == TtlSeconds(config, l.ttl)
       IN \A j \in 1..Len(l.keys) :
            (Serialize(l.vals[j]).ok /\ RedisSetExOk(secs)) =>
               LET fk == getKey(config, l.keys[j])
               IN store'[fk] = RedisSetEx(store, fk, secs, Serialize(l.vals[j]).text,
                                          now, l.vals[j], TtlMs(config, l.ttl))[fk]]_vars

\* C20: a delete the store carried out leaves its key absent, changes no
\* other key and does not reject, whether the key was there or not; a key
\* that is absent comes back only by a set or mset of that key; get of an
\* absent key returns null and has returns false.
C20_DeleteRemoves ==
  /\ [][(last'.name = "delete" /\ last'.okCall) =>
          LET fk == getKey(config, last'.keys[1])
          IN /\ ~store'[fk].present
             /\ \A other \in DOMAIN store \ {fk} : store'[other] = store[other]
             /\ ~last'.threw]_vars
  /\ [][\A k \in Keys :
          (~Live(store, getKey(config, k), now) /\ Live(store', getKey(config, k), now'))
            => (last'.name \in {"set", "mset"}
                  /\ \E i \in 1..Len(last'.keys) : last'.keys[i] = k)]_vars
  /\ []((last.name = "get" /\ last.okCall /\ ~last.src[1].present)
          => last.ret = <<VNull>>)
  /\ []((last.name = "has" /\ last.okCall /\ ~last.src[1].present) => ~last.retBool)

\* Of two entries written by one mset, delete has removed one.
C20_Witness ==
  /\ last.name = "delete" /\ last.okCall /\ last.keys = <<"a">> /\ nops = 2
  /\ stats.sets = 2 /\ stats.deletes = 1
  /\ ~store[getKey(config, "a")].present
  /\ store[getKey(config, "b")].present

(***************************************************************************)
(* Claims about RedisCache: has and getStats.                              *)
(***************************************************************************)
\* C21: has(key) returns true exactly when the store call succeeded and the
\* full key is in the store and not expired; it returns false when the
\* connection or the store call failed; it changes no stored entry and none
\* of hits, misses and hitRate.
C21_HasExists ==
  [][last'.name = "has" =>
       LET fk == getKey(config, last'.keys[1])
       IN /\ last'.retBool <=> (last'.okCall /\ Live(store, fk, now))
          /\ ~last'.threw
          /\ store' = store
          /\ stats'.hits = stats.hits /\ stats'.misses = stats.misses
          /\ stats'.hitRate = stats.hitRate]_vars

\* After a get was served from the cache, has reported the entry, expired
\* since, as absent.
C21_Witness ==
  /\ last.name = "has" /\ last.okCall /\ ~last.retBool
  /\ last.src[1].present /\ now >= last.src[1].exp
  /\ stats.hits = 1

\* The live keys of the store that start with this instance's prefix.
UnderPrefix ==
  {fk \in DOMAIN store : Live(store, fk, now) /\ StartsWith(fk, config.keyPrefix)}

\* C22: with stats enabled, a getStats() whose store call succeeded returns
\* as size the number of live keys under the instance's prefix, whatever
\* stats.size was before (clear() sets it to 0), returns hits, misses, sets
\* and deletes as they are, and changes none of the four.
C22_GetStatsSize ==
  [][(last'.name = "getStats" /\ config.enableStats /\ last'.okCall) =>
       /\ last'.retStats.size = Cardinality(UnderPrefix)
       /\ Counters(last'.retStats) = Counters(stats)
       /\ Counters(stats') = Counters(stats)
       /\ store' = store
       /\ ~last'.threw]_vars

\* getStats() counted the two entries an mset had written.
C22_Witness ==
  /\ last.name = "getStats" /\ last.okCall /\ config.enableStats
  /\ last.retStats.size = 2 /\ last.retStats.sets = 2 /\ nops = 3

(***************************************************************************)
(* The in-process backend (MemoryCache): bounded, LRU + TTL.               *)
(***************************************************************************)
MaxMemOps == 4

MemKeys == {"a", "b", "c"}
MemValues == {VObj, VNum}
MemTtlArgs == {0, 500}
MemConfigInputs == [ttl : {1000}, maxSize : {0, 1, 2}, enableStats : {TRUE}]

\* The keys held, expired or not.
MemKeysOf(c) == {c[i].key : i \in 1..Len(c)}

MemEntry(c, k) == c[CHOOSE i \in 1..Len(c) : c[i].key = k]

MemRemove(c, k) == SelectSeq(c, LAMBDA e : e.key # k)

\* The key is present and its expiresAt has not passed.
MemFresh(c, k, t) == k \in MemKeysOf(c) /\ ~(t > MemEntry(c, k).expiresAt)

\* A read that leaves the recency order as it is.
MemTouchKeeps(c, k) == c

\* Mark the key most recently used.
MemTouch(c, k) == Append(MemRemove(c, k), MemEntry(c, k))

\* Record the access: the entry's latest use is the access numbered clk.
MemStamp(c, k, clk) ==
  [i \in 1..Len(c) |-> IF c[i].key = k THEN [c[i] EXCEPT !.usedAt = clk] ELSE c[i]]

\* Inserting would exceed the configured maximum size and the key is new.
MemFull(c, cfg, k) ==
  cfg.maxSize > 0 /\ k \notin MemKeysOf(c) /\ Len(c) >= cfg.maxSize

\* A cache that makes no room.
MemEvictNothing(c, cfg, k) == c

\* Evict the single least recently used entry before inserting.
MemEvict(c, cfg, k) == IF MemFull(c, cfg, k) THEN Tail(c) ELSE c

MemEvicted(c, cfg, k) == IF MemFull(c, cfg, k) THEN <<Head(c).key>> ELSE << >>

\* set: expiry = now + (ttlOverride or defaultTtl); replaces any existing
\* entry of the key.
MemPut(c, cfg, k, v, ttl, t, clk) ==
  Append(MemRemove(MemEvict(c, cfg, k), k),
         [key |-> k, value |-> v,
          expiresAt |-> t + (IF ttl # 0 THEN ttl ELSE cfg.ttl), usedAt |-> clk])

MemCount(s, f) ==
  IF mconfig.enableStats THEN updateHitRate([s EXCEPT ![f] = @ + 1]) ELSE s

MemSize(s, c) == [s EXCEPT !.size = Len(c)]

\* get on cache c: the value or null, and the cache it leaves.
MemGetOne(c, k, t, clk) ==
  IF MemFresh(c, k, t)
  THEN [hit |-> TRUE, v |-> MemEntry(c, k).value,
        c |-> MemStamp(MemTouch(c, k), k, clk)]
  ELSE [hit |-> FALSE, v |-> VNull, c |-> MemRemove(c, k)]

memIdle == <<config, stats, connected, connecting, attempts, client, serverUp,
             store, pc, op, last, nops, getsDone, coordVars, peerVars,
             keyVars, sqlVars, ctorVars, rcVars, lbVars>>

MemStep(n) ==
  /\ mclock + n <= MaxMemOps
  /\ mclock' = mclock + n
  /\ UNCHANGED <<mconfig, memIdle, now>>

MemGet(k) ==
  LET r == MemGetOne(mcache, k, now, mclock + 1)
  IN /\ MemStep(1)
     /\ mcache' = r.c
     /\ mstats' = MemSize(MemCount(mstats, IF r.hit THEN "hits" ELSE "misses"), r.c)
     /\ mlast' = [NoMLast EXCEPT !.name = "get", !.keys = <<k>>, !.hit = r.hit,
                                 !.ret = <<r.v>>]
     /\ UNCHANGED flushed

MemSet(k, v, ttl) ==
  LET c == MemPut(mcache, mconfig, k, v, ttl, now, mclock + 1)
  IN /\ MemStep(1)
     /\ mcache' = c
     /\ mstats' = MemSize(MemCount(mstats, "sets"), c)
     /\ mlast' = [NoMLast EXCEPT !.name = "set", !.keys = <<k>>,
                                 !.evicted = MemEvicted(mcache, mconfig, k)]
     /\ flushed' = flushed \ {k}

MemDelete(k) ==
  LET c == MemRemove(mcache, k)
  IN /\ MemStep(1)
     /\ mcache' = c
     /\ mstats' = MemSize(MemCount(mstats, "deletes"), c)
     /\ mlast' = [NoMLast EXCEPT !.name = "delete", !.keys = <<k>>]
     /\ UNCHANGED flushed

\* has: existence check; no statistic and no use is recorded.
MemHas(k) ==
  /\ MemStep(1)
  /\ mlast' = [NoMLast EXCEPT !.name = "has", !.keys = <<k>>,
                              !.retBool = MemFresh(mcache, k, now)]
  /\ UNCHANGED <<mcache, mstats, flushed>>

\* mget: get key by key.
MemMGet(k1, k2) ==
  LET r1 == MemGetOne(mcache, k1, now, mclock + 1)
      r2 == MemGetOne(r1.c, k2, now, mclock + 2)
      s1 == MemCount(mstats, IF r1.hit THEN "hits" ELSE "misses")
      s2 == MemCount(s1, IF r2.hit THEN "hits" ELSE "misses")
  IN /\ MemStep(2)
     /\ mcache' = r2.c
     /\ mstats' = MemSize(s2, r2.c)
     /\ mlast' = [NoMLast EXCEPT !.name = "mget", !.keys = <<k1, k2>>,
                                 !.ret = <<r1.v, r2.v>>]
     /\ UNCHANGED flushed

\* mset: set entry by entry.
MemMSet(k1, k2, v, ttl) ==
  LET c1 == MemPut(mcache, mconfig, k1, v, ttl, now, mclock + 1)
      c2 == MemPut(c1, mconfig, k2, v, ttl, now, mclock + 2)
  IN /\ MemStep(2)
     /\ mcache' = c2
     /\ mstats' = MemSize(MemCount(MemCount(mstats, "sets"), "sets"), c2)
     /\ mlast' = [NoMLast EXCEPT !.name = "mset", !.keys = <<k1, k2>>,
                    !.evicted = MemEvicted(mcache, mconfig, k1)
                                \o MemEvicted(c1, mconfig, k2)]
     /\ flushed' = flushed \ {k1, k2}

\* A clear that only zeroes the size, as the networked backend's does.
MemClearSizeOnly(c) == c

\* clear: empties the structure.
MemClearAll(c) == << >>

MemClear ==
  /\ MemStep(1)
  /\ mcache' = MemClearAll(mcache)
  /\ mstats' = [mstats EXCEPT !.size = 0]
  /\ mlast' = [NoMLast EXCEPT !.name = "clear"]
  /\ flushed' = flushed \cup MemKeysOf(mcache)

\* Time passes for the in-process cache.
MemTick ==
  /\ now < MaxTicks * 500
  /\ now' = now + 500
  /\ mlast' = NoMLast
  /\ UNCHANGED <<mconfig, mcache, mstats, mclock, flushed, memIdle>>

InitMem ==
  /\ config \in {RedisCacheConfig(c) : c \in CoordConfigInputs}
  /\ stats = StatsZero
  /\ connected = FALSE
  /\ connecting = "null"
  /\ attempts = 0
  /\ client = "closed"
  /\ serverUp = TRUE
  /\ store = [fk \in StoreKeys |-> NoEntry]
  /\ now = 0
  /\ pc = [p \in Procs |-> "idle"]
  /\ op = [p \in Procs |-> IdleOp]
  /\ last = NoRes
  /\ nops = 0
  /\ getsDone = 0
  /\ InitCoordIdle
  /\ InitPeerIdle
  /\ mconfig \in MemConfigInputs
  /\ mcache = << >>
  /\ mstats = StatsZero
  /\ mclock = 0
  /\ mlast = NoMLast
  /\ flushed = {}
  /\ InitKeyIdle /\ InitSqlIdle /\ InitCtorIdle /\ InitRcIdle /\ InitLbIdle

NextMem ==
  \/ \E k \in MemKeys : MemGet(k)
  \/ \E k \in MemKeys, v \in MemValues, ttl \in MemTtlArgs : MemSet(k, v, ttl)
  \/ \E k \in MemKeys : MemDelete(k)
  \/ \E k \in MemKeys : MemHas(k)
  \/ \E k1, k2 \in MemKeys : k1 # k2 /\ MemMGet(k1, k2)
  \/ \E k1, k2 \in MemKeys, ttl \in MemTtlArgs : k1 # k2 /\ MemMSet(k1, k2, VObj, ttl)
  \/ MemClear
  \/ MemTick

SpecMem == InitMem /\ [][NextMem]_vars

(***************************************************************************)
(* Claims about the in-process backend.                                    *)
(***************************************************************************)

\* C23: with maxSize = N > 0 the in-process cache never holds more than N
\* entries, and its size statistic never exceeds N, after any sequence of
\* set, mset, get, mget, has, delete and clear.
C23_SizeBounded ==
  mconfig.maxSize > 0 =>
    /\ Len(mcache) <= mconfig.maxSize
    /\ mstats.size <= mconfig.maxSize

\* A set into a full cache of two entries evicted one and left two.
C23_Witness ==
  /\ mconfig.maxSize = 2 /\ Len(mcache) = 2
  /\ mlast.name = "set" /\ Len(mlast.evicted) = 1

\* C24: a set of a new key into a full in-process cache evicts exactly one
\* entry, the one whose latest access (set or get) is the oldest; a set of a
\* key already present evicts nothing; and a key read by a get is not the one
\* evicted by a set that directly follows, when the cache holds two entries.
C24_EvictsLRU ==
  /\ [][mlast'.name = "set" =>
          LET k == mlast'.keys[1]
          IN IF MemFull(mcache, mconfig, k)
             THEN \E i \in 1..Len(mcache) :
                    /\ \A j \in 1..Len(mcache) : mcache[i].usedAt <= mcache[j].usedAt
                    /\ mlast'.evicted = <<mcache[i].key>>
                    /\ MemKeysOf(mcache') = (MemKeysOf(mcache) \ {mcache[i].key}) \cup {k}
             ELSE /\ mlast'.evicted = << >>
                  /\ MemKeysOf(mcache') = MemKeysOf(mcache) \cup {k}]_vars
  /\ [][(mlast.name = "get" /\ mlast.hit /\ mlast'.name = "set"
         /\ mconfig.maxSize > 1) =>
          \A i \in 1..Len(mlast'.evicted) : mlast'.evicted[i] # mlast.keys[1]]_vars

\* a and b were set in this order, a was read, and the set of c evicted b.
C24_Witness ==
  /\ mconfig.maxSize = 2 /\ mclock = 4 /\ mstats.hits = 1
  /\ mlast.name = "set" /\ mlast.keys = <<"c">> /\ mlast.evicted = <<"b">>
  /\ Len(mcache) = 2 /\ mcache[1].key = "a" /\ mcache[1].usedAt = 3

\* C25: clear() on the in-process cache leaves no entry and size 0, and a
\* get of a key that was held when clear() ran misses until the key is set
\* again.
C25_ClearFlushes ==
  /\ [][mlast'.name = "clear" => mcache' = << >> /\ mstats'.size = 0]_vars
  /\ [](\A k \in flushed : k \notin MemKeysOf(mcache))
  /\ []((mlast.name = "get" /\ mlast.keys[1] \in flushed) =>
          ~mlast.hit /\ mlast.ret = <<VNull>>)

\* A get of a key that clear() had dropped, within the key's ttl, missed.
C25_Witness ==
  /\ mlast.name = "get" /\ mlast.keys[1] \in flushed /\ ~mlast.hit
  /\ now = 0 /\ mstats.sets = 1 /\ mstats.size = 0

(***************************************************************************)
(* Claims about the update path and the storage adapter.                   *)
(***************************************************************************)

KeyGuildIds == {"1", "1:2"}
KeyUserIds == {"3", "2:3"}

\* The logical objects: a user of a guild, a leaderboard of a guild under a
\* sort criterion, a guild's config.
KeyObjects ==
       [kind : {"user"}, g : KeyGuildIds, u : KeyUserIds, sortBy : {""}]
  \cup [kind : {"leaderboard"}, g : KeyGuildIds, u : {""}, sortBy : SortCriteria]
  \cup [kind : {"guildConfig"}, g : KeyGuildIds, u : {""}, sortBy : {""}]

\* The key the coordinator computes, as the backend stores it.
CacheKeyOf(o) ==
  getKey(config,
         CASE o.kind = "user" -> UserKey(o.g, o.u)
           [] o.kind = "leaderboard" -> LeaderboardKey(o.g, o.sortBy)
           [] OTHER -> GuildConfigKey(o.g))

keyIdle == <<redisVars, coordVars, peerVars, memVars, sqlVars, ctorVars, rcVars,
  lbVars>>

\* The keys of both objects are computed.
BuildKeys ==
  /\ ~keyed.built
  /\ keyed' = [keyed EXCEPT !.ka = CacheKeyOf(keyed.a), !.kb = CacheKeyOf(keyed.b),
                            !.built = TRUE]
  /\ UNCHANGED keyIdle

InitKeys ==
  /\ config \in {RedisCacheConfig(c) : c \in CoordConfigInputs}
  /\ stats = StatsZero
  /\ connected = FALSE
  /\ connecting = "null"
  /\ attempts = 0
  /\ client = "closed"
  /\ serverUp = TRUE
  /\ store = [fk \in StoreKeys |-> NoEntry]
  /\ now = 0
  /\ pc = [p \in Procs |-> "idle"]
  /\ op = [p \in Procs |-> IdleOp]
  /\ last = NoRes
  /\ nops = 0
  /\ getsDone = 0
  /\ InitCoordIdle
  /\ InitPeerIdle
  /\ InitMemIdle /\ InitSqlIdle /\ InitCtorIdle /\ InitRcIdle /\ InitLbIdle
  /\ \E a, b \in KeyObjects : keyed = [NoKeyed EXCEPT !.a = a, !.b = b]

NextKeys == BuildKeys

SpecKeys == InitKeys /\ [][NextKeys]_vars

MaxRev == 0
MaxSessions == 1

XpValues == {1, 2}

\* The guildData passed to saveGuild: the config revision and the users map
\* (NoRow: the user is not in the map).
GuildDataInputs == [rev : 0..MaxRev, users : [StoreUsers -> {NoRow} \cup XpValues]]

\* insertGuild.run: INSERT OR REPLACE INTO guilds.  Replacing the guild's row
\* deletes it first, and with foreign_keys = ON the users rows that reference
\* it go with it (ON DELETE CASCADE); without a guild row there are none.
insertGuild(d, rev) ==
  [rev |-> rev, users |-> [u \in StoreUsers |-> NoRow],
   sessions |-> [u \in StoreUsers |-> 0]]

\* insertUser.run: INSERT OR REPLACE INTO users. REPLACE deletes the row that
\* holds the primary key before it inserts, and with foreign_keys = ON the
\* session rows that reference the deleted row go with it (ON DELETE
\* CASCADE).
insertUser(d, u, xp) == [d EXCEPT !.users[u] = xp, !.sessions[u] = 0]

\* insertSession.run: INSERT INTO sessions; the row references its user's
\* row.
insertSession(d, u) == [d EXCEPT !.sessions[u] = @ + 1]

\* One statement of the transaction function: it throws, or runs.
RunStatement(st, fails, d) ==
  IF st.failed THEN st
  ELSE IF fails THEN [st EXCEPT !.failed = TRUE]
  ELSE [db |-> d, failed |-> FALSE]

\* The transaction function of saveGuild: the guild row, then every user of
\* guildData.users; it stops at the statement that throws.
SaveGuildStatements(d, gd, failAt) ==
  LET s0 == [db |-> d, failed |-> FALSE]
      s1 == RunStatement(s0, failAt = "guild", insertGuild(s0.db, gd.rev))
      s2 == IF gd.users["u1"] = NoRow THEN s1
            ELSE RunStatement(s1, failAt = "u1", insertUser(s1.db, "u1", gd.users["u1"]))
      s3 == IF gd.users["u2"] = NoRow THEN s2
            ELSE RunStatement(s2, failAt = "u2", insertUser(s2.db, "u2", gd.users["u2"]))
  IN s3

\* A failed transaction that keeps the statements it ran.
RollbackKeeps(before, partial) == partial

\* db.transaction: a throw inside the function rolls everything back.
Rollback(before, partial) == before

sqlIdle == <<redisVars, coordVars, peerVars, memVars, keyVars, ctorVars, rcVars,
  lbVars>>

\* saveGuild(guildData): the transaction commits, or rolls back and the
\* error is logged and rethrown. On a closed handle the first statement
\* throws.
saveGuild(gd, failAt) ==
  LET r == SaveGuildStatements(sdb, gd, failAt)
  IN /\ failAt \in {"u1", "u2"} => gd.users[failAt] # NoRow
     /\ ~sopen => failAt = "guild"
     /\ sdb' = IF r.failed THEN Rollback(sdb, r.db) ELSE r.db
     /\ slast' = [NoSLast EXCEPT !.name = "saveGuild", !.threw = r.failed,
                                 !.failAt = failAt]
     /\ UNCHANGED <<scorrupt, sfiles, sopen, sqlIdle>>

\* saveUser(guildId, userData): one INSERT OR REPLACE; it throws when the
\* statement fails, as it does without a guild row to reference.
saveUser(u, xp, stmtOk) ==
  LET ok == stmtOk /\ sopen /\ sdb.rev # NoRow
  IN /\ sdb' = IF ok THEN insertUser(sdb, u, xp) ELSE sdb
     /\ slast' = [NoSLast EXCEPT !.name = "saveUser", !.threw = ~ok, !.user = u]
     /\ UNCHANGED <<scorrupt, sfiles, sopen, sqlIdle>>

\* saveSession(session): one INSERT; an error, as without a user row to
\* reference, is logged and swallowed.
saveSession(u, stmtOk) ==
  LET ok == stmtOk /\ sopen /\ sdb.users[u] # NoRow
  IN /\ sdb.sessions[u] < MaxSessions
     /\ sdb' = IF ok THEN insertSession(sdb, u) ELSE sdb
     /\ slast' = [NoSLast EXCEPT !.name = "saveSession", !.user = u]
     /\ UNCHANGED <<scorrupt, sfiles, sopen, sqlIdle>>

\* The live database file gets corrupted.
Corrupt ==
  /\ ~scorrupt
  /\ scorrupt' = TRUE
  /\ slast' = NoSLast
  /\ UNCHANGED <<sdb, sfiles, sopen, sqlIdle>>

\* An integrity check that always passes.
verifyIntegrityAlways(checkOk) == TRUE

\* verifyIntegrity(): PRAGMA integrity_check says ok; false when it does not
\* or when the statement throws, as it does on a closed handle.
verifyIntegrity(checkOk) == checkOk /\ sopen /\ ~scorrupt

\* deleteBackupFiles(backupPath): unlink the file if it exists; an error is
\* logged and swallowed.
deleteBackupFiles(files, path, unlinkOk) ==
  IF files[path].exists /\ unlinkOk THEN [files EXCEPT ![path] = NoFile] ELSE files

\* What db.backup(path) leaves at the path: the copy, complete and intact or
\* not; when it rejects, the file as it was or a partial copy.
BackupOutcomes == {"copied", "copiedBad", "rejectedUntouched", "rejectedPartial"}

BackupFile(files, path, outcome) ==
  CASE outcome = "copied" -> [files EXCEPT ![path] = [exists |-> TRUE, data |-> sdb, ok |-> TRUE]]
    [] outcome = "copiedBad" -> [files EXCEPT ![path] = [exists |-> TRUE, data |-> sdb, ok |-> FALSE]]
    [] outcome = "rejectedPartial" -> [files EXCEPT ![path] = [exists |-> TRUE, data |-> sdb, ok |-> FALSE]]
    [] OTHER -> files

\* safeBackup(backupPath): integrity check, WAL checkpoint, db.backup, check
\* of the backup; every throw lands in the catch block, which deletes the
\* files at backupPath and returns false.
safeBackup(path) ==
  \E checkOk, ckptOk, openOk, unlinkOk \in BOOLEAN, outcome \in BackupOutcomes :
    LET copied == BackupFile(sfiles, path, outcome)
        res ==
          IF ~verifyIntegrity(checkOk)
            THEN [ret |-> FALSE, files |-> sfiles]
          ELSE IF ~ckptOk
            THEN [ret |-> FALSE, files |-> deleteBackupFiles(sfiles, path, unlinkOk)]
          ELSE IF outcome \in {"rejectedUntouched", "rejectedPartial"} \/ ~openOk
            THEN [ret |-> FALSE, files |-> deleteBackupFiles(copied, path, unlinkOk)]
          ELSE IF copied[path].ok
            THEN [ret |-> TRUE, files |-> copied]
          ELSE [ret |-> FALSE, files |-> deleteBackupFiles(copied, path, unlinkOk)]
    IN /\ sfiles' = res.files
       /\ slast' = [NoSLast EXCEPT !.name = "safeBackup", !.path = path,
                                   !.ret = res.ret]
       /\ UNCHANGED <<sdb, scorrupt, sopen, sqlIdle>>

\* A restore that takes every backup file as verified.
BackupVerifiedAlways(file, openOk) == TRUE

\* The check restore makes of the backup: the file opens read-only and
\* PRAGMA integrity_check says ok.
BackupVerified(file, openOk) == openOk /\ file.exists /\ file.ok

\* restore(backupPath): check the backup; then checkpoint (an error is
\* swallowed), close the handle, copy the backup over the database file,
\* reopen and init. Every throw is logged and rethrown. A copy that fails
\* leaves the database file as it was or partly overwritten.
restore(path) ==
  \E openOk, reopenOk \in BOOLEAN,
     copy \in {"copied", "failedUntouched", "failedPartial"} :
    LET file == sfiles[path]
        res ==
          IF ~BackupVerified(file, openOk)
            THEN [threw |-> TRUE, db |-> sdb, corrupt |-> scorrupt, open |-> sopen]
          ELSE IF copy # "copied"
            THEN [threw |-> TRUE, db |-> sdb,
                  corrupt |-> scorrupt \/ copy = "failedPartial", open |-> FALSE]
          ELSE [threw |-> ~reopenOk, db |-> file.data, corrupt |-> FALSE,
                open |-> reopenOk]
    IN /\ sdb' = res.db
       /\ scorrupt' = res.corrupt
       /\ sopen' = res.open
       /\ slast' = [NoSLast EXCEPT !.name = "restore", !.path = path,
                                   !.threw = res.threw]
       /\ UNCHANGED <<sfiles, sqlIdle>>

InitStore ==
  /\ config \in {RedisCacheConfig(c) : c \in CoordConfigInputs}
  /\ stats = StatsZero
  /\ connected = FALSE
  /\ connecting = "null"
  /\ attempts = 0
  /\ client = "closed"
  /\ serverUp = TRUE
  /\ store = [fk \in StoreKeys |-> NoEntry]
  /\ now = 0
  /\ pc = [p \in Procs |-> "idle"]
  /\ op = [p \in Procs |-> IdleOp]
  /\ last = NoRes
  /\ nops = 0
  /\ getsDone = 0
  /\ InitCoordIdle
  /\ InitPeerIdle
  /\ InitMemIdle /\ InitKeyIdle /\ InitCtorIdle /\ InitRcIdle /\ InitLbIdle
  /\ sdb = SDbEmpty
  /\ scorrupt = FALSE
  /\ sfiles \in [BackupPaths -> {NoFile, [exists |-> TRUE, data |-> SDbEmpty, ok |-> TRUE]}]
  /\ slast = NoSLast
  /\ sopen = TRUE

NextStore ==
  \/ \E gd \in GuildDataInputs, failAt \in {"none", "guild", "u1", "u2"} :
       saveGuild(gd, failAt)
  \/ \E u \in StoreUsers, xp \in XpValues, stmtOk \in BOOLEAN : saveUser(u, xp, stmtOk)
  \/ \E u \in StoreUsers, stmtOk \in BOOLEAN : saveSession(u, stmtOk)
  \/ Corrupt
  \/ \E path \in BackupPaths : safeBackup(path)
  \/ \E path \in BackupPaths : restore(path)

SpecStore == InitStore /\ [][NextStore]_vars

\* C28: when safeBackup(path) returns false, a file that was at path before
\* the call is still there, unchanged.
C28_BackupKeepsGoodFile ==
  [][(slast'.name = "safeBackup" /\ ~slast'.ret /\ sfiles[slast'.path].exists) =>
       sfiles'[slast'.path] = sfiles[slast'.path]]_vars

\* C29: a saveGuild in which the guild row's statement or a user row's
\* statement fails changes no row of the database, and rejects.
C29_SaveGuildAtomic ==
  [][(slast'.name = "saveGuild" /\ slast'.failAt # "none") =>
       slast'.threw /\ sdb' = sdb]_vars

\* A saveGuild whose second user row failed rejected, over a stored guild
\* row and two stored user rows.
C29_Witness ==
  /\ slast.name = "saveGuild" /\ slast.threw /\ slast.failAt = "u2"
  /\ sdb.rev = 0 /\ sdb.users["u1"] = 1 /\ sdb.users["u2"] = 2

(***************************************************************************)
(* Construction of a RedisCache.                                           *)
(***************************************************************************)
UrlDefault == "redis://localhost:6379"

\* Constructor arguments explored: no url, a url, and a string that is no
\* redis url.
CtorArgs == [url : {"", "redis://cache:6379", "cache:6379"}, ttl : {0},
             enableStats : {TRUE}, keyPrefix : {""}]

\* url: config.url || 'redis://localhost:6379'
ConfigUrl(c) == IF c.url = "" THEN UrlDefault ELSE c.url

\* createClient({ url }) parses the url and throws on a protocol other than
\* redis: or rediss:.
createClientThrows(url) ==
  ~(StartsWith(url, "redis://") \/ StartsWith(url, "rediss://"))

\* The calls made on the instance once it is constructed.
CtorOps ==
       [name : {"get"}, keys : {<<"a">>}, vals : {<< >>}, ttl : {0}]
  \cup [name : {"set"}, keys : {<<"a">>}, vals : {<<VObj>>}, ttl : {0}]

\* new RedisCache(ctorArg): defaults are filled in, the fields are
\* initialised and the client is created; nothing is validated and nothing
\* connects.  The only throw is createClient's.
New ==
  /\ ctor = "none"
  /\ IF createClientThrows(ConfigUrl(ctorArg))
     THEN /\ ctor' = "threw"
          /\ UNCHANGED <<config, stats, connected, connecting, client>>
     ELSE /\ ctor' = "ok"
          /\ config' = RedisCacheConfig(ctorArg)
          /\ stats' = StatsZero
          /\ connected' = FALSE
          /\ connecting' = "null"
          /\ client' = "closed"
  /\ UNCHANGED <<attempts, serverUp, store, now, pc, op, last, nops, getsDone,
                 coordVars, peerVars, memVars, keyVars, sqlVars, ctorArg, rcVars,
                 lbVars>>

InitConstruct ==
  /\ config = RedisCacheConfig(NoCtorArg)
  /\ stats = StatsZero
  /\ connected = FALSE
  /\ connecting = "null"
  /\ attempts = 0
  /\ client = "closed"
  /\ serverUp \in BOOLEAN
  /\ store = [fk \in StoreKeys |-> NoEntry]
  /\ now = 0
  /\ pc = [p \in Procs |-> "idle"]
  /\ op = [p \in Procs |-> IdleOp]
  /\ last = NoRes
  /\ nops = 0
  /\ getsDone = 0
  /\ InitCoordIdle
  /\ InitPeerIdle
  /\ InitMemIdle /\ InitKeyIdle /\ InitSqlIdle /\ InitRcIdle /\ InitLbIdle
  /\ ctorArg \in CtorArgs
  /\ ctor = "none"

NextConstruct ==
  \/ New
  \/ ctor = "ok" /\ \E p \in Procs, o \in CtorOps : Start(p, o)
  \/ ctor = "ok" /\ Run

SpecConstruct == InitConstruct /\ [][NextConstruct]_vars

\* C30: a RedisCache constructed without a connection url, or with one that
\* is no redis url, is never handed out: the constructor throws, and no
\* operation is started on the instance.
C30_ConfigErrorAtConstruction ==
  (ctorArg.url = "" \/ createClientThrows(ctorArg.url)) =>
    (ctor # "ok" /\ nops = 0)

(***************************************************************************)
(* Reconnecting: the client's reconnectStrategy.                           *)
(***************************************************************************)
MaxRetries == 120

\* Stands for every value of Math.pow(2, retries) from this one up, Infinity
\* included.
Huge == 65536

Min(a, b) == IF a < b THEN a ELSE b

\* Math.pow(2, r), in floating point: no overflow.
Pow2(r) == IF r >= 16 THEN Huge ELSE 2^r

\* A strategy without the cap.
reconnectStrategyUncapped(r) == 100 * Pow2(r)

\* reconnectStrategy: (retries) => Math.min(100 * Math.pow(2, retries), 3000)
reconnectStrategy(r) == Min(100 * Pow2(r), 3000)

rcIdle == <<redisVars, coordVars, peerVars, memVars, keyVars, sqlVars, ctorVars,
           lbVars>>

\* The socket is down: the client asks the strategy for the delay before
\* retry number `retries` and waits.
Reconnecting ==
  /\ retries < MaxRetries
  /\ delay' = reconnectStrategy(retries)
  /\ retries' = retries + 1
  /\ UNCHANGED rcIdle

\* The socket connects: the count of retries starts over.
Reconnected ==
  /\ retries > 0
  /\ retries' = 0
  /\ delay' = 0
  /\ UNCHANGED rcIdle

InitReconnect ==
  /\ config \in {RedisCacheConfig(c) : c \in CoordConfigInputs}
  /\ stats = StatsZero
  /\ connected = FALSE
  /\ connecting = "null"
  /\ attempts = 0
  /\ client = "closed"
  /\ serverUp = TRUE
  /\ store = [fk \in StoreKeys |-> NoEntry]
  /\ now = 0
  /\ pc = [p \in Procs |-> "idle"]
  /\ op = [p \in Procs |-> IdleOp]
  /\ last = NoRes
  /\ nops = 0
  /\ getsDone = 0
  /\ InitCoordIdle
  /\ InitPeerIdle
  /\ InitMemIdle /\ InitKeyIdle /\ InitSqlIdle /\ InitCtorIdle /\ InitLbIdle
  /\ retries = 0
  /\ delay = 0

NextReconnect == Reconnecting \/ Reconnected

SpecReconnect == InitReconnect /\ [][NextReconnect]_vars

(***************************************************************************)
(* Claims about RedisCache: defaults, reconnecting, close, get.            *)
(***************************************************************************)

\* C31: constructed with the options omitted, the instance has ttl 300000,
\* url 'redis://localhost:6379', keyPrefix 'voice:' and enableStats true, and
\* every entry it writes is stored under 'voice:' followed by the key.
C31_DocumentedDefaults ==
  (ctor = "ok" /\ ctorArg = NoCtorArg) =>
    /\ config.ttl = 300000
    /\ ConfigUrl(ctorArg) = "redis://localhost:6379"
    /\ config.enableStats
    /\ config.keyPrefix = "voice:"
    /\ \A fk \in DOMAIN store : store[fk].present => StartsWith(fk, "voice:")

\* C32: the delay before retry r is min(100 * 2^r, 3000): 100, 200, 400, 800
\* for r = 0..3, 1600 for r = 4 and 3000 from r = 5 on; it never exceeds
\* 3000, never decreases from one retry to the next, and is a positive
\* number for every r, so that the client retries again.
C32_ReconnectDelay ==
  /\ [](retries > 0 =>
          LET r == retries - 1
          IN /\ delay = (IF r <= 4 THEN 100 * 2^r ELSE 3000)
             /\ delay > 0 /\ delay <= 3000)
  /\ [][(retries > 0 /\ retries' = retries + 1) => delay' >= delay]_vars

\* The delay before the retry numbered MaxRetries - 1 was 3000.
C32_Witness == retries = MaxRetries /\ delay = 3000

\* C33: in the step that follows the return of close(), unless that step
\* invokes init() or an operation, the instance is still disconnected:
\* connected is false and the client holds no open or opening connection.
C33_ClosedStaysClosed ==
  [][(last.name = "close" /\ nops' = nops) =>
       (~connected' /\ client' = "closed")]_vars

\* C34: with stats enabled, a get that is counted as a hit returns a value
\* other than null, and a get that is counted as a miss returns null.
C34_NullIffMiss ==
  [][(config.enableStats /\ last'.name = "get") =>
       /\ stats'.hits = stats.hits + 1 => last'.ret[1] # VNull
       /\ stats'.misses = stats.misses + 1 => last'.ret[1] = VNull]_vars

(***************************************************************************)
(* Claims about SQLiteStorage: restore, saveUser, safeBackup.              *)
(***************************************************************************)

\* C36: a restore from a backup file that fails the check (it does not open,
\* or its integrity check does not say ok) throws and leaves the live
\* database and the storage's handle as they were.
C36_RestoreVerifiesFirst ==
  [][(slast'.name = "restore" /\ ~(sfiles[slast'.path].exists /\ sfiles[slast'.path].ok)) =>
       /\ slast'.threw
       /\ sdb' = sdb /\ scorrupt' = scorrupt /\ sopen' = sopen]_vars

\* A restore from a file that is there but corrupted threw, over a stored
\* guild with a user row and an open handle.
C36_Witness ==
  /\ slast.name = "restore" /\ slast.threw
  /\ sfiles[slast.path].exists /\ ~sfiles[slast.path].ok
  /\ sopen /\ sdb.rev # NoRow /\ sdb.users["u1"] # NoRow

\* C37: saveUser changes the row of its user only: every session row and
\* every other user's row is as before.
C37_SaveUserFrame ==
  [][slast'.name = "saveUser" =>
       /\ sdb'.sessions = sdb.sessions
       /\ \A v \in StoreUsers \ {slast'.user} : sdb'.users[v] = sdb.users[v]
       /\ sdb'.rev = sdb.rev]_vars

\* C38: safeBackup does not throw; it returns true only over a live database
\* that passes the integrity check and with a backup file at the path that
\* passes its own; over a live database that fails the check it writes
\* nothing.
C38_SafeBackupSound ==
  [][slast'.name = "safeBackup" =>
       /\ ~slast'.threw
       /\ slast'.ret =>
            /\ sopen /\ ~scorrupt
            /\ sfiles'[slast'.path].exists /\ sfiles'[slast'.path].ok
            /\ sfiles'[slast'.path].data = sdb
       /\ scorrupt => ~slast'.ret /\ sfiles' = sfiles]_vars

\* A safeBackup returned true and its file holds the guild row and a user
\* row.
C38_Witness ==
  /\ slast.name = "safeBackup" /\ slast.ret
  /\ sfiles[slast.path].ok /\ sfiles[slast.path].data.users["u1"] # NoRow

(***************************************************************************)
(* SQLiteStorage.getLeaderboard over a users table.                        *)
(***************************************************************************)
MaxLimit == 2

BoardUsers == {"u1", "u2", "u3"}

\* The columns of a users row that the query reads.
BoardRows == [g : Guilds, xp : 0..1, level : 0..1, voiceTime : 0..1]

\* sortField: the column named by sortBy, total_voice_time for 'voiceTime'.
SortField(row, sortBy) ==
  CASE sortBy = "voiceTime" -> row.voiceTime
    [] sortBy = "level" -> row.level
    [] OTHER -> row.xp

\* ORDER BY ${sortField} DESC, xp DESC puts row a before row b.
OrderedBefore(a, b, sortBy) ==
  \/ SortField(a, sortBy) > SortField(b, sortBy)
  \/ SortField(a, sortBy) = SortField(b, sortBy) /\ a.xp > b.xp

\* WHERE guild_id = ?
GuildUsers(tab, g) == {u \in DOMAIN tab : tab[u].g = g}

\* The orders the ORDER BY admits for the guild's rows: rows equal in the
\* sort field and in xp come in any order.
OrderBy(tab, g, sortBy) ==
  LET us == GuildUsers(tab, g)
      n == Cardinality(us)
  IN {s \in [1..n -> us] :
        \A i, j \in 1..n :
          i < j => s[i] # s[j] /\ ~OrderedBefore(tab[s[j]], tab[s[i]], sortBy)}

\* ROW_NUMBER() OVER (ORDER BY ...) as rank, numbered over the guild's rows
\* before LIMIT and OFFSET apply; the rows are then mapped to entries.
RowNumber(tab, ord) ==
  [i \in 1..Len(ord) |->
     [userId |-> ord[i], guildId |-> tab[ord[i]].g,
      voiceTime |-> tab[ord[i]].voiceTime, xp |-> tab[ord[i]].xp,
      level |-> tab[ord[i]].level, rank |-> i]]

\* A LIMIT without the OFFSET.
LimitOnly(rows, limit, offset) == SubSeq(rows, 1, Min(Len(rows), limit))

\* LIMIT ? OFFSET ?
LimitOffset(rows, limit, offset) ==
  SubSeq(rows, offset + 1, Min(Len(rows), offset + limit))

\* getLeaderboard(guildId, sortBy, limit, offset): the rows of the query; the
\* catch block logs and returns [].
getLeaderboard(tab, g, sortBy, limit, offset, ord, stmtOk) ==
  IF ~stmtOk THEN << >>
  ELSE LimitOffset(RowNumber(tab, ord), limit, offset)

lbIdle == <<redisVars, coordVars, peerVars, memVars, keyVars, sqlVars, ctorVars,
           rcVars>>

\* The call returns.
QueryBoard ==
  /\ ~board.done
  /\ \E stmtOk \in BOOLEAN, ord \in OrderBy(board.tab, board.g, board.sortBy) :
       board' = [board EXCEPT
                   !.res = getLeaderboard(board.tab, board.g, board.sortBy,
                                          board.limit, board.offset, ord, stmtOk),
                   !.done = TRUE]
  /\ UNCHANGED lbIdle

InitBoard ==
  /\ config \in {RedisCacheConfig(c) : c \in CoordConfigInputs}
  /\ stats = StatsZero
  /\ connected = FALSE
  /\ connecting = "null"
  /\ attempts = 0
  /\ client = "closed"
  /\ serverUp = TRUE
  /\ store = [fk \in StoreKeys |-> NoEntry]
  /\ now = 0
  /\ pc = [p \in Procs |-> "idle"]
  /\ op = [p \in Procs |-> IdleOp]
  /\ last = NoRes
  /\ nops = 0
  /\ getsDone = 0
  /\ InitCoordIdle
  /\ InitPeerIdle
  /\ InitMemIdle /\ InitKeyIdle /\ InitSqlIdle /\ InitCtorIdle /\ InitRcIdle
  /\ board \in [tab : [BoardUsers -> BoardRows], g : {TrackedGuild},
                 sortBy : SortCriteria, limit : 0..MaxLimit, offset : 0..MaxOffset,
                 res : {<< >>}, done : {FALSE}]

NextBoard == QueryBoard

SpecBoard == InitBoard /\ [][NextBoard]_vars

\* C39: the entries getLeaderboard returns are users of the guild asked for,
\* at most `limit` of them, in descending order of the sort field with equal
\* sort fields in descending order of xp, and the entry at 0-based position
\* i has rank offset + i + 1.
C39_LeaderboardRanked ==
  board.done =>
    LET r == board.res
    IN /\ Len(r) <= board.limit
       /\ \A i \in 1..Len(r) :
            /\ r[i].userId \in BoardUsers
            /\ board.tab[r[i].userId].g = board.g /\ r[i].guildId = board.g
            /\ r[i].xp = board.tab[r[i].userId].xp
            /\ r[i].level = board.tab[r[i].userId].level
            /\ r[i].voiceTime = board.tab[r[i].userId].voiceTime
            /\ r[i].rank = board.offset + (i - 1) + 1
       /\ \A i, j \in 1..Len(r) :
            i < j =>
              LET a == IF board.sortBy = "voiceTime" THEN r[i].voiceTime
                       ELSE IF board.sortBy = "level" THEN r[i].level ELSE r[i].xp
                  b == IF board.sortBy = "voiceTime" THEN r[j].voiceTime
                       ELSE IF board.sortBy = "level" THEN r[j].level ELSE r[j].xp
              IN a > b \/ (a = b /\ r[i].xp >= r[j].xp)

\* A page of two entries at offset 1 by level, equal in level and apart in
\* xp.
C39_Witness ==
  /\ board.done /\ board.sortBy = "level" /\ board.offset = 1
  /\ Len(board.res) = 2
  /\ board.res[1].level = board.res[2].level /\ board.res[1].xp > board.res[2].xp
  /\ board.res[1].rank = 2

\* C35: with no write made, a read of the coordinator returns what the
\* storage returns for the same arguments, from the cache or from the
\* storage; a leaderboard page cached for one offset is not the answer to a
\* request for another.
C35_ReadsMatchStorage ==
  (clast.done /\ clast.name \in Reads /\ ~clast.threw) =>
    clast.ret \in {StorageRead(clast, stmtOk).v : stmtOk \in BOOLEAN}

====
